---------------------------- MODULE Spec2Model ----------------------------
(***************************************************************************)
(* Booking engine of the car rental service: rentals, reservations, the    *)
(* clients' balances and the vehicles' status, as the Django REST views    *)
(* in rentals/views.py, vehicles/views.py, users/views.py and              *)
(* payments/serializers.py implement them.                                 *)
(*                                                                         *)
(* Every HTTP request is a process slot (proc) that walks through the      *)
(* statements of its view.  The database is PostgreSQL-style READ          *)
(* COMMITTED: select_for_update() and UPDATE/DELETE take a row lock that   *)
(* is held until the transaction ends, plain SELECTs read the committed    *)
(* rows, writes of an open transaction are buffered in the proc and become *)
(* visible at commit.  A view that returns a Response commits, a view      *)
(* that raises rolls back.                                                 *)
(*                                                                         *)
(* Times are integer ticks, TicksPerDay ticks to a calendar day.           *)
(***************************************************************************)
EXTENDS Integers, FiniteSets, TLC

VARIABLES
    balance,      \* UserModel.balance of every client (committed)
    vehicle,      \* VehicleModel rows: status, current_station (committed)
    rental,       \* RentalModel rows (committed)
    reservation,  \* ReservationModel rows (committed)
    lock,         \* row locks: the proc holding the row, or NoProc
    proc          \* the requests in flight, one record per slot

vars == <<balance, vehicle, rental, reservation, lock, proc>>

-----------------------------------------------------------------------------
(* Bounds of the model *)

MaxTime == 4          \* ticks run 0..MaxTime
MaxBalance == 4       \* top-ups stop once a balance would pass this
TicksPerDay == 2      \* resolution of a datetime below one calendar day

(* timezone.now(), frozen while the model runs *)
Now == 1

Clients == {"c1", "c2"}
Managers == {"m1"}
Users == Clients \cup Managers
Vehicles == {"v1", "v2"}
Stations == {"s1", "s2"}
RentalIds == {"r1", "r2"}
ResvIds == {"q1", "q2"}
Procs == {"p1", "p2"}
Rows == Users \cup Vehicles \cup RentalIds \cup ResvIds

None == "none"
NoProc == "none"
NoTime == 0 - 1
Times == 0 .. MaxTime

(* UserChoice *)
CLIENT == "CL"
MANAGER == "MN"

(* VehicleStatusChoices *)
AVAILABLE == "AV"
RENTED == "RT"
MAINTENANCE == "MN"
VehicleStatuses == {AVAILABLE, RENTED, MAINTENANCE}

(* RentalStatusChoices / ReservationStatusChoices *)
PENDING == "PENDING"
ACTIVE == "ACTIVE"
COMPLETED == "COMPLETED"
CANCELLED == "CANCELLED"
CONFIRMED == "CONFIRMED"
RentalStatuses == {PENDING, ACTIVE, COMPLETED, CANCELLED}
ReservationStatuses == {PENDING, CONFIRMED, CANCELLED}

(* UserModel.role of the authenticated user *)
role(u) == IF u \in Managers THEN MANAGER ELSE CLIENT

(* VehicleModel.daily_price, set by the catalogue and never changed here *)
daily_price(v) == 2

(* StationModel.is_active *)
is_active(st) == st = "s1"

-----------------------------------------------------------------------------
(* Pure helpers of the views *)

(* datetime.date(): the calendar day of a tick *)
DateOf(t) == t \div TicksPerDay

(* day_count of create/update: difference of the calendar dates, at least 1 *)
day_count(s, e) ==
    LET d == DateOf(e) - DateOf(s) IN IF d < 1 THEN 1 ELSE d

(* total_amount = daily_price * day_count *)
total_amount(v, s, e) == daily_price(v) * day_count(s, e)

(* the filter with __lt and __gt: intervals that only touch do not overlap *)
OverlapsStrictly(rs, re, s, e) == rs < e /\ re > s

(* the ORM filter start_date__lte=e, end_date__gte=s on a row [rs, re] *)
Overlaps(rs, re, s, e) == rs <= e /\ re >= s

(* the balance check left out: every debit is let through *)
InsufficientBalanceUnchecked(bal, amount) == FALSE

(* user.balance < amount: the guard in front of every debit *)
InsufficientBalance(bal, amount) == bal < amount

(* a transition table that allows every change of status *)
can_transition_to_any(status, new_status) == TRUE

(* RentalModel.can_transition_to *)
can_transition_to(status, new_status) ==
    \/ status = PENDING /\ new_status \in {ACTIVE, CANCELLED}
    \/ status = ACTIVE /\ new_status \in {COMPLETED, CANCELLED}

-----------------------------------------------------------------------------
(* Queries over the committed rows *)

(* RentalModel.objects.filter(client=u): the client's rentals of any status *)
RentalsOf(u) ==
    {r \in RentalIds : rental[r].exists /\ rental[r].client = u}

(* RentalModel.objects.filter(client=u, status=ACTIVE) *)
ActiveRentalsOf(u) ==
    {r \in RentalIds : rental[r].exists /\ rental[r].client = u
                       /\ rental[r].status = ACTIVE}

(* ReservationModel.objects.filter(car=v, start_date__lte=e, end_date__gte=s,
   status=CONFIRMED).exclude(pk=q) *)
ConfirmedReservationOverlap(v, s, e, q) ==
    \E x \in ResvIds \ {q} :
        /\ reservation[x].exists /\ reservation[x].car = v
        /\ reservation[x].status = CONFIRMED
        /\ Overlaps(reservation[x].s, reservation[x].e, s, e)

(* RentalModel.objects.filter(car=v, status=ACTIVE, start_date__lte=e,
   end_date__gte=s) *)
ActiveRentalOverlap(v, s, e) ==
    \E r \in RentalIds :
        /\ rental[r].exists /\ rental[r].car = v /\ rental[r].status = ACTIVE
        /\ Overlaps(rental[r].s, rental[r].e, s, e)

(* ReservationModel.objects.filter(client=u, car=v,
   status__in=[PENDING, CONFIRMED]) *)
OwnOpenReservation(u, v) ==
    \E x \in ResvIds :
        /\ reservation[x].exists /\ reservation[x].client = u
        /\ reservation[x].car = v
        /\ reservation[x].status \in {PENDING, CONFIRMED}

-----------------------------------------------------------------------------
(* Rows and request records *)

NoRental == [exists |-> FALSE, client |-> None, car |-> None, s |-> 0, e |-> 0,
             total |-> 0, status |-> None, ret |-> None]
NoReservation == [exists |-> FALSE, client |-> None, car |-> None, s |-> 0,
                  e |-> 0, status |-> None]
NoVehicle == [status |-> None, station |-> None]

Idle == [pc |-> "idle", op |-> None, user |-> None, target |-> None,
         rid |-> None, qid |-> None,
         car |-> None, st |-> None, s |-> NoTime, e |-> NoTime,
         station |-> None, near |-> FALSE, amt |-> 0,
         debited |-> 0, rsnap |-> NoRental, vsnap |-> NoVehicle, bsnap |-> 0,
         resp |-> None]

(* a request record once its response is out: what was asked by whom, and
   the response *)
Finished(pr, response) ==
    [Idle EXCEPT !.op = pr.op, !.user = pr.user, !.resp = response]

(* the end of a transaction releases every row lock it took *)
Release(p) == [x \in Rows |-> IF lock[x] = p THEN NoProc ELSE lock[x]]

(* a row can be locked or written by p: nobody else holds it *)
Free(x, p) == lock[x] \in {NoProc, p}

Respond(p, response) ==
    /\ proc' = [proc EXCEPT ![p] = Finished(proc[p], response)]
    /\ lock' = Release(p)

-----------------------------------------------------------------------------
(* RentalViewSet.create: POST /rentals/ *)

create_start(p, u, v, pick, s, e) ==
    /\ proc[p].pc = "idle"
    /\ proc' = [proc EXCEPT ![p] =
                 [Idle EXCEPT !.pc = "create_lock_user", !.op = "create",
                              !.user = u, !.car = v, !.station = pick,
                              !.s = s, !.e = e]]
    /\ UNCHANGED <<balance, vehicle, rental, reservation, lock>>

(* the user row read without select_for_update: nothing waits for it *)
create_lock_user_unlocked(p) ==
    /\ proc[p].pc = "create_lock_user"
    /\ proc' = [proc EXCEPT ![p].pc = "create_lock_vehicle"]
    /\ UNCHANGED <<balance, vehicle, rental, reservation, lock>>

(* UserModel.objects.select_for_update().get(id=request.user.id) *)
create_lock_user(p) ==
    /\ proc[p].pc = "create_lock_user"
    /\ Free(proc[p].user, p)
    /\ lock' = [lock EXCEPT ![proc[p].user] = p]
    /\ proc' = [proc EXCEPT ![p].pc = "create_lock_vehicle"]
    /\ UNCHANGED <<balance, vehicle, rental, reservation>>

(* VehicleModel.objects.select_for_update().get(id=request.data['car']) *)
create_lock_vehicle(p) ==
    /\ proc[p].pc = "create_lock_vehicle"
    /\ Free(proc[p].car, p)
    /\ lock' = [lock EXCEPT ![proc[p].car] = p]
    /\ proc' = [proc EXCEPT ![p].pc = "create_check"]
    /\ UNCHANGED <<balance, vehicle, rental, reservation>>

(* the checks and the debit: an early return commits a transaction that has
   written nothing; the debit is a write of the open transaction *)
create_check(p) ==
    LET pr == proc[p]
        total == total_amount(pr.car, pr.s, pr.e)
    IN
    /\ pr.pc = "create_check"
    /\ IF ActiveRentalsOf(pr.user) # {}
         THEN Respond(p, "400_active_rental")
       ELSE IF ConfirmedReservationOverlap(pr.car, pr.s, pr.e, None)
         THEN Respond(p, "400_reserved")
       ELSE IF InsufficientBalance(balance[pr.user], total)
         THEN Respond(p, "400_insufficient_balance")
       ELSE /\ proc' = [proc EXCEPT ![p].pc = "create_save",
                                    ![p].debited = total]
            /\ UNCHANGED lock
    /\ UNCHANGED <<balance, vehicle, rental, reservation>>

(* RentalSerializer: validate_car, validate_pickup_station, validate *)
RentalSerializerValid(v, pick, s, e) ==
    /\ vehicle[v].status = AVAILABLE
    /\ pick # None /\ is_active(pick)
    /\ ~(s >= e)
    /\ ~(s < Now)

(* the create without its atomic block: the debit written by user.save()
   stays when the serializer raises *)
create_save_keeps_debit(p) ==
    LET pr == proc[p] IN
    /\ pr.pc = "create_save"
    /\ balance' = [balance EXCEPT ![pr.user] = @ - pr.debited]
    /\ IF RentalSerializerValid(pr.car, pr.station, pr.s, pr.e)
         THEN Respond(p, "500_integrity_error")
         ELSE Respond(p, "400_validation")
    /\ UNCHANGED <<vehicle, rental, reservation>>

(* serializer.is_valid(raise_exception=True); serializer.save().
   client, status and total_amount are read_only fields of the serializer
   (extra_kwargs), so the values the view puts into data are dropped and the
   INSERT carries no client_id: the NOT NULL column raises IntegrityError.
   Either exception leaves the atomic block and rolls the debit back. *)
create_save(p) ==
    LET pr == proc[p] IN
    /\ pr.pc = "create_save"
    /\ IF RentalSerializerValid(pr.car, pr.station, pr.s, pr.e)
         THEN Respond(p, "500_integrity_error")
         ELSE Respond(p, "400_validation")
    /\ UNCHANGED <<balance, vehicle, rental, reservation>>

-----------------------------------------------------------------------------
(* RentalViewSet.update / partial_update: PUT, PATCH /rentals/<pk>/ *)

update_start(p, u, r, st, v, ret, s, e) ==
    /\ proc[p].pc = "idle"
    /\ proc' = [proc EXCEPT ![p] =
                 [Idle EXCEPT !.pc = "update_lock_user", !.op = "update",
                              !.user = u, !.rid = r, !.st = st, !.car = v,
                              !.station = ret, !.s = s, !.e = e]]
    /\ UNCHANGED <<balance, vehicle, rental, reservation, lock>>

(* UserModel.objects.select_for_update().get(id=request.user.id) *)
update_lock_user(p) ==
    /\ proc[p].pc = "update_lock_user"
    /\ Free(proc[p].user, p)
    /\ lock' = [lock EXCEPT ![proc[p].user] = p]
    /\ proc' = [proc EXCEPT ![p].pc = "update_lock_rental"]
    /\ UNCHANGED <<balance, vehicle, rental, reservation>>

(* RentalModel.objects.select_for_update().get(pk=kwargs['pk']):
   DoesNotExist when the row is gone *)
update_lock_rental(p) ==
    /\ proc[p].pc = "update_lock_rental"
    /\ Free(proc[p].rid, p)
    /\ IF rental[proc[p].rid].exists
         THEN /\ lock' = [lock EXCEPT ![proc[p].rid] = p]
              /\ proc' = [proc EXCEPT ![p].pc = "update_body"]
         ELSE Respond(p, "500_does_not_exist")
    /\ UNCHANGED <<balance, vehicle, rental, reservation>>

(* what the body of update() decides: the response, and for a 200 the debit
   of the requesting user and the rental row it saves *)
Refused(response) == [ok |-> FALSE, resp |-> response, debit |-> 0,
                      row |-> NoRental]
Accepted(debit, row) == [ok |-> TRUE, resp |-> "200", debit |-> debit,
                         row |-> row]

(* the client asks for status CANCELLED: the refund goes to the user who
   sends the request *)
update_client_cancel(pr, row) ==
    IF row.status = PENDING
      THEN Accepted(0 - row.total, [row EXCEPT !.status = CANCELLED])
    ELSE IF row.status = ACTIVE THEN Refused("400_cancel_active")
    ELSE Refused("400_cancel_state")

(* the change of dates without the refund of a lower price *)
update_client_dates_no_credit(pr, row, bal) ==
    LET start_date == IF pr.s # NoTime THEN pr.s ELSE row.s
        end_date == IF pr.e # NoTime THEN pr.e ELSE row.e
        new_total_amount == total_amount(row.car, start_date, end_date)
        difference == new_total_amount - row.total
    IN
    IF start_date >= end_date THEN Refused("400_start_before_end")
    ELSE IF ConfirmedReservationOverlap(row.car, start_date, end_date, None)
      THEN Refused("400_reserved")
    ELSE IF difference > 0 /\ InsufficientBalance(bal, difference)
      THEN Refused("400_insufficient_balance")
    ELSE Accepted(IF difference > 0 THEN difference ELSE 0,
                  [row EXCEPT !.s = start_date, !.e = end_date,
                              !.total = new_total_amount])

(* the client sends start_date and/or end_date; bal is the balance of the
   requesting user, whose row is locked *)
update_client_dates(pr, row, bal) ==
    LET start_date == IF pr.s # NoTime THEN pr.s ELSE row.s
        end_date == IF pr.e # NoTime THEN pr.e ELSE row.e
        new_total_amount == total_amount(row.car, start_date, end_date)
        difference == new_total_amount - row.total
    IN
    IF start_date >= end_date THEN Refused("400_start_before_end")
    ELSE IF ConfirmedReservationOverlap(row.car, start_date, end_date, None)
      THEN Refused("400_reserved")
    ELSE IF difference > 0 /\ InsufficientBalance(bal, difference)
      THEN Refused("400_insufficient_balance")
    ELSE Accepted(difference, [row EXCEPT !.s = start_date, !.e = end_date,
                                          !.total = new_total_amount])

(* super().update() for a manager: UpdateModelMixin.update with the
   RentalSerializer.  validate() reads data['start_date'] and
   data['end_date'], so a request without both raises; client, status and
   total_amount are read_only; the other fields are written as sent. *)
update_manager(pr, row) ==
    IF pr.s = NoTime \/ pr.e = NoTime THEN Refused("500_key_error")
    ELSE IF \/ pr.car # None /\ vehicle[pr.car].status # AVAILABLE
            \/ pr.station # None /\ ~is_active(pr.station)
            \/ pr.s >= pr.e
            \/ pr.s < Now
      THEN Refused("400_validation")
    ELSE Accepted(0, [row EXCEPT
                        !.s = pr.s, !.e = pr.e,
                        !.car = IF pr.car # None THEN pr.car ELSE @,
                        !.ret = IF pr.station # None THEN pr.station ELSE @])

(* the body of update() by role *)
update_outcome(pr, row, bal) ==
    IF role(pr.user) = CLIENT
      THEN IF pr.st = CANCELLED THEN update_client_cancel(pr, row)
           ELSE IF pr.s # NoTime \/ pr.e # NoTime
             THEN update_client_dates(pr, row, bal)
           \* super().update(): get_object() is filtered by client and the
           \* serializer wants both dates, which this branch never has
           ELSE Refused("400_no_change")
      ELSE update_manager(pr, row)

(* the body of update() once both rows are locked: it reads, decides and
   writes inside the transaction *)
update_body(p) ==
    LET pr == proc[p]
        out == update_outcome(pr, rental[pr.rid],
                              IF pr.user \in Clients THEN balance[pr.user]
                                                     ELSE 0)
    IN
    /\ pr.pc = "update_body"
    /\ IF out.ok
         THEN /\ proc' = [proc EXCEPT ![p].pc = "update_commit",
                                      ![p].debited = out.debit,
                                      ![p].rsnap = out.row]
              /\ UNCHANGED lock
         ELSE Respond(p, out.resp)
    /\ UNCHANGED <<balance, vehicle, rental, reservation>>

(* return Response(...): the atomic block ends and the writes commit *)
update_commit(p) ==
    LET pr == proc[p] IN
    /\ pr.pc = "update_commit"
    /\ balance' = IF pr.user \in Clients
                    THEN [balance EXCEPT ![pr.user] = @ - pr.debited]
                    ELSE balance
    /\ rental' = [rental EXCEPT ![pr.rid] = pr.rsnap]
    /\ Respond(p, "200")
    /\ UNCHANGED <<vehicle, reservation>>

-----------------------------------------------------------------------------
(* RentalViewSet.destroy: DELETE /rentals/<pk>/ (no transaction) *)

destroy_start(p, u, r) ==
    /\ proc[p].pc = "idle"
    /\ proc' = [proc EXCEPT ![p] =
                 [Idle EXCEPT !.pc = "destroy_check", !.op = "destroy",
                              !.user = u, !.rid = r]]
    /\ UNCHANGED <<balance, vehicle, rental, reservation, lock>>

(* get_object() runs on get_queryset(), which a client sees filtered by
   client=request.user; a manager is refused *)
destroy_check(p) ==
    LET pr == proc[p]
        row == rental[pr.rid]
    IN
    /\ pr.pc = "destroy_check"
    /\ IF role(pr.user) # CLIENT
         THEN Respond(p, "403")
       ELSE IF ~row.exists \/ row.client # pr.user
         THEN Respond(p, "404")
       ELSE IF row.status # PENDING
         THEN Respond(p, "400_not_pending")
       ELSE proc' = [proc EXCEPT ![p].pc = "destroy_delete"] /\ UNCHANGED lock
    /\ UNCHANGED <<balance, vehicle, rental, reservation>>

(* super().destroy(): get_object() again, then instance.delete(), a DELETE
   by primary key that waits for the row lock and refunds nothing *)
destroy_delete(p) ==
    LET pr == proc[p]
        row == rental[pr.rid]
    IN
    /\ pr.pc = "destroy_delete"
    /\ Free(pr.rid, p)
    /\ IF ~row.exists \/ row.client # pr.user
         THEN Respond(p, "404") /\ UNCHANGED rental
         ELSE /\ rental' = [rental EXCEPT ![pr.rid] = NoRental]
              /\ Respond(p, "204")
    /\ UNCHANGED <<balance, vehicle, reservation>>

-----------------------------------------------------------------------------
(* RentalViewSet.set_status: POST /rentals/<pk>/set-status/ *)

set_status_start(p, u, r, st) ==
    /\ proc[p].pc = "idle"
    /\ proc' = [proc EXCEPT ![p] =
                 [Idle EXCEPT !.pc = "set_status_lock", !.op = "set_status",
                              !.user = u, !.rid = r, !.st = st]]
    /\ UNCHANGED <<balance, vehicle, rental, reservation, lock>>

(* the role check, then RentalModel.objects.select_for_update().get(pk=pk) *)
set_status_lock(p) ==
    LET pr == proc[p] IN
    /\ pr.pc = "set_status_lock"
    /\ IF role(pr.user) # MANAGER
         THEN Respond(p, "403")
         ELSE /\ Free(pr.rid, p)
              /\ IF rental[pr.rid].exists
                   THEN /\ lock' = [lock EXCEPT ![pr.rid] = p]
                        /\ proc' = [proc EXCEPT ![p].pc = "set_status_check"]
                   ELSE Respond(p, "500_does_not_exist")
    /\ UNCHANGED <<balance, vehicle, rental, reservation>>

(* the transition checks without the query for a CONFIRMED reservation *)
set_status_check_unreserved(p) ==
    LET pr == proc[p]
        row == rental[pr.rid]
    IN
    /\ pr.pc = "set_status_check"
    /\ IF ~can_transition_to(row.status, pr.st)
         THEN Respond(p, "400_transition")
       ELSE IF pr.st = CANCELLED /\ row.status = ACTIVE
         THEN Respond(p, "400_cancel_active")
       ELSE IF pr.st = COMPLETED /\ row.ret = None
         THEN Respond(p, "400_no_return_station")
       ELSE /\ proc' = [proc EXCEPT
                          ![p].pc = IF pr.st = CANCELLED
                                      THEN "set_status_refund"
                                      ELSE "set_status_vehicle",
                          ![p].rsnap = [row EXCEPT !.status = pr.st],
                          ![p].vsnap = vehicle[row.car]]
            /\ UNCHANGED lock
    /\ UNCHANGED <<balance, vehicle, rental, reservation>>

(* the transition checks, rental.save() and the fetch of rental.car; the
   row written is locked, the vehicle is read without a lock *)
set_status_check(p) ==
    LET pr == proc[p]
        row == rental[pr.rid]
    IN
    /\ pr.pc = "set_status_check"
    /\ IF ~can_transition_to(row.status, pr.st)
         THEN Respond(p, "400_transition")
       ELSE IF pr.st = CANCELLED /\ row.status = ACTIVE
         THEN Respond(p, "400_cancel_active")
       ELSE IF pr.st = ACTIVE
               /\ ConfirmedReservationOverlap(row.car, row.s, row.e, None)
         THEN Respond(p, "400_reserved")
       ELSE IF pr.st = COMPLETED /\ row.ret = None
         THEN Respond(p, "400_no_return_station")
       ELSE /\ proc' = [proc EXCEPT
                          ![p].pc = IF pr.st = CANCELLED
                                      THEN "set_status_refund"
                                      ELSE "set_status_vehicle",
                          ![p].rsnap = [row EXCEPT !.status = pr.st],
                          ![p].vsnap = vehicle[row.car]]
            /\ UNCHANGED lock
    /\ UNCHANGED <<balance, vehicle, rental, reservation>>

(* the cancel without its refund: the client's row is locked and written
   back as it is *)
set_status_refund_none(p) ==
    LET pr == proc[p] IN
    /\ pr.pc = "set_status_refund"
    /\ Free(pr.rsnap.client, p)
    /\ lock' = [lock EXCEPT ![pr.rsnap.client] = p]
    /\ proc' = [proc EXCEPT ![p].pc = "set_status_vehicle"]
    /\ UNCHANGED <<balance, vehicle, rental, reservation>>

(* client.balance = F('balance') + rental.total_amount; client.save():
   an UPDATE of the client's row, which waits for its lock *)
set_status_refund(p) ==
    LET pr == proc[p] IN
    /\ pr.pc = "set_status_refund"
    /\ Free(pr.rsnap.client, p)
    /\ lock' = [lock EXCEPT ![pr.rsnap.client] = p]
    /\ proc' = [proc EXCEPT ![p].pc = "set_status_vehicle",
                            ![p].debited = 0 - pr.rsnap.total]
    /\ UNCHANGED <<balance, vehicle, rental, reservation>>

(* the vehicle freed on cancellation only: a completed rental leaves it
   as it was *)
VehicleStatusForCancelOnly(new_status, old) ==
    IF new_status = ACTIVE THEN RENTED
    ELSE IF new_status = CANCELLED THEN AVAILABLE
    ELSE old

(* the status a rental status gives the vehicle *)
VehicleStatusFor(new_status, old) ==
    IF new_status = ACTIVE THEN RENTED
    ELSE IF new_status \in {CANCELLED, COMPLETED} THEN AVAILABLE
    ELSE old

(* vehicle.save() writes every column of the vehicle as fetched, with the
   new status; the atomic block then ends and all writes commit *)
set_status_vehicle(p) ==
    LET pr == proc[p]
        car == pr.rsnap.car
    IN
    /\ pr.pc = "set_status_vehicle"
    /\ Free(car, p)
    /\ rental' = [rental EXCEPT ![pr.rid] = pr.rsnap]
    /\ balance' = IF pr.st = CANCELLED
                    THEN [balance EXCEPT ![pr.rsnap.client] = @ - pr.debited]
                    ELSE balance
    /\ vehicle' = [vehicle EXCEPT ![car] =
                     [pr.vsnap EXCEPT
                        !.status = VehicleStatusFor(pr.st, pr.vsnap.status)]]
    /\ Respond(p, "200")
    /\ UNCHANGED reservation

-----------------------------------------------------------------------------
(* RentalViewSet.return_car_to_station: POST /rentals/return-car-to-station/ *)

return_start(p, u, station, near) ==
    /\ proc[p].pc = "idle"
    /\ proc' = [proc EXCEPT ![p] =
                 [Idle EXCEPT !.pc = "return_read", !.op = "return",
                              !.user = u, !.station = station, !.near = near]]
    /\ UNCHANGED <<balance, vehicle, rental, reservation, lock>>

(* the checks in front of the atomic block without the distance check *)
return_read_anywhere(p) ==
    LET pr == proc[p]
        mine == ActiveRentalsOf(pr.user)
    IN
    /\ pr.pc = "return_read"
    /\ IF role(pr.user) # CLIENT THEN Respond(p, "403")
       ELSE IF mine = {} THEN Respond(p, "400_no_active_rental")
       ELSE IF Cardinality(mine) > 1 THEN Respond(p, "500_multiple_objects")
       ELSE IF pr.station = None THEN Respond(p, "400_no_station")
       ELSE /\ proc' = [proc EXCEPT
                          ![p].pc = "return_save_rental",
                          ![p].rid = CHOOSE r \in mine : TRUE,
                          ![p].rsnap = rental[CHOOSE r \in mine : TRUE]]
            /\ UNCHANGED lock
    /\ UNCHANGED <<balance, vehicle, rental, reservation>>

(* everything in front of the atomic block: plain reads, no lock.
   RentalModel.objects.get() raises MultipleObjectsReturned when the client
   has more than one ACTIVE rental. *)
return_read(p) ==
    LET pr == proc[p]
        mine == ActiveRentalsOf(pr.user)
    IN
    /\ pr.pc = "return_read"
    /\ IF role(pr.user) # CLIENT THEN Respond(p, "403")
       ELSE IF mine = {} THEN Respond(p, "400_no_active_rental")
       ELSE IF Cardinality(mine) > 1 THEN Respond(p, "500_multiple_objects")
       ELSE IF pr.station = None THEN Respond(p, "400_no_station")
       ELSE IF ~pr.near THEN Respond(p, "400_not_near")
       ELSE /\ proc' = [proc EXCEPT
                          ![p].pc = "return_save_rental",
                          ![p].rid = CHOOSE r \in mine : TRUE,
                          ![p].rsnap = rental[CHOOSE r \in mine : TRUE]]
            /\ UNCHANGED lock
    /\ UNCHANGED <<balance, vehicle, rental, reservation>>

(* rental.save() outside any transaction: the rental is COMPLETED for
   everyone before the vehicle is written *)
return_save_rental_autocommit(p) ==
    LET pr == proc[p]
        row == [pr.rsnap EXCEPT !.status = COMPLETED, !.ret = pr.station]
    IN
    /\ pr.pc = "return_save_rental"
    /\ Free(pr.rid, p)
    /\ lock' = [lock EXCEPT ![pr.rid] = p]
    /\ rental' = [rental EXCEPT ![pr.rid] = row]
    /\ proc' = [proc EXCEPT ![p].pc = "return_save_vehicle",
                            ![p].rsnap = row,
                            ![p].vsnap = vehicle[pr.rsnap.car]]
    /\ UNCHANGED <<balance, vehicle, reservation>>

(* rental.save(): an UPDATE of every column from the object read before the
   transaction (an INSERT when the row is gone); then rental.car is fetched *)
return_save_rental(p) ==
    LET pr == proc[p] IN
    /\ pr.pc = "return_save_rental"
    /\ Free(pr.rid, p)
    /\ lock' = [lock EXCEPT ![pr.rid] = p]
    /\ proc' = [proc EXCEPT
                  ![p].pc = "return_save_vehicle",
                  ![p].rsnap = [pr.rsnap EXCEPT !.status = COMPLETED,
                                                !.ret = pr.station],
                  ![p].vsnap = vehicle[pr.rsnap.car]]
    /\ UNCHANGED <<balance, vehicle, rental, reservation>>

(* vehicle.save() and the end of the atomic block *)
return_save_vehicle(p) ==
    LET pr == proc[p]
        car == pr.rsnap.car
    IN
    /\ pr.pc = "return_save_vehicle"
    /\ Free(car, p)
    /\ rental' = [rental EXCEPT ![pr.rid] = pr.rsnap]
    /\ vehicle' = [vehicle EXCEPT ![car] =
                     [pr.vsnap EXCEPT !.status = AVAILABLE,
                                      !.station = pr.station]]
    /\ Respond(p, "200")
    /\ UNCHANGED <<balance, reservation>>

-----------------------------------------------------------------------------
(* ReservationViewSet.create: POST /rentals/reservations/ *)

reservation_create_start(p, u, v, s, e) ==
    /\ proc[p].pc = "idle"
    /\ proc' = [proc EXCEPT ![p] =
                 [Idle EXCEPT !.pc = "reservation_create_lock",
                              !.op = "reservation_create",
                              !.user = u, !.car = v, !.s = s, !.e = e]]
    /\ UNCHANGED <<balance, vehicle, rental, reservation, lock>>

(* VehicleModel.objects.select_for_update().get(id=vehicle_id) *)
reservation_create_lock(p) ==
    /\ proc[p].pc = "reservation_create_lock"
    /\ Free(proc[p].car, p)
    /\ lock' = [lock EXCEPT ![proc[p].car] = p]
    /\ proc' = [proc EXCEPT ![p].pc = "reservation_create_body"]
    /\ UNCHANGED <<balance, vehicle, rental, reservation>>

(* ReservationSerializer: validate_car, validate *)
ReservationSerializerValid(v, s, e) ==
    /\ vehicle[v].status = AVAILABLE
    /\ ~(s > e)
    /\ ~(s < Now)

(* the three conflict queries, then super().create(): the serializer's
   client is read_only, so the INSERT carries no client_id and raises
   IntegrityError; nothing is ever stored *)
reservation_create_body(p) ==
    LET pr == proc[p] IN
    /\ pr.pc = "reservation_create_body"
    /\ IF OwnOpenReservation(pr.user, pr.car)
         THEN Respond(p, "400_own_reservation")
       ELSE IF ActiveRentalOverlap(pr.car, pr.s, pr.e)
         THEN Respond(p, "400_rented")
       ELSE IF ~ReservationSerializerValid(pr.car, pr.s, pr.e)
         THEN Respond(p, "400_validation")
       ELSE Respond(p, "500_integrity_error")
    /\ UNCHANGED <<balance, vehicle, rental, reservation>>

-----------------------------------------------------------------------------
(* ReservationViewSet.set_status: POST /rentals/reservations/<pk>/set-status/ *)

reservation_set_status_start(p, u, q, st) ==
    /\ proc[p].pc = "idle"
    /\ proc' = [proc EXCEPT ![p] =
                 [Idle EXCEPT !.pc = "reservation_set_status_lock",
                              !.op = "reservation_set_status",
                              !.user = u, !.qid = q, !.st = st]]
    /\ UNCHANGED <<balance, vehicle, rental, reservation, lock>>

(* the role check, then ReservationModel.objects.select_for_update().get() *)
reservation_set_status_lock(p) ==
    LET pr == proc[p] IN
    /\ pr.pc = "reservation_set_status_lock"
    /\ IF role(pr.user) # MANAGER
         THEN Respond(p, "403")
         ELSE /\ Free(pr.qid, p)
              /\ IF reservation[pr.qid].exists
                   THEN /\ lock' = [lock EXCEPT ![pr.qid] = p]
                        /\ proc' = [proc EXCEPT
                                      ![p].pc = "reservation_set_status_body"]
                   ELSE Respond(p, "500_does_not_exist")
    /\ UNCHANGED <<balance, vehicle, rental, reservation>>

(* the conflict checks and reservation.save() without the two checks of
   the current status *)
reservation_set_status_body_any(p) ==
    LET pr == proc[p]
        row == reservation[pr.qid]
    IN
    /\ pr.pc = "reservation_set_status_body"
    /\ IF pr.st \notin ReservationStatuses
         THEN Respond(p, "400_invalid_status")
       ELSE IF pr.st = CONFIRMED /\ ActiveRentalOverlap(row.car, row.s, row.e)
         THEN Respond(p, "400_rented")
       ELSE IF pr.st = CONFIRMED
               /\ ConfirmedReservationOverlap(row.car, row.s, row.e, pr.qid)
         THEN Respond(p, "400_reserved")
       ELSE /\ proc' = [proc EXCEPT ![p].pc = "reservation_set_status_commit"]
            /\ UNCHANGED lock
    /\ UNCHANGED <<balance, vehicle, rental, reservation>>

(* the checks and reservation.save() without the query for another
   CONFIRMED reservation *)
reservation_set_status_body_rentals_only(p) ==
    LET pr == proc[p]
        row == reservation[pr.qid]
    IN
    /\ pr.pc = "reservation_set_status_body"
    /\ IF row.status = CANCELLED
         THEN Respond(p, "400_cancelled")
       ELSE IF row.status = CONFIRMED /\ pr.st = PENDING
         THEN Respond(p, "400_revert")
       ELSE IF pr.st \notin ReservationStatuses
         THEN Respond(p, "400_invalid_status")
       ELSE IF pr.st = CONFIRMED /\ ActiveRentalOverlap(row.car, row.s, row.e)
         THEN Respond(p, "400_rented")
       ELSE /\ proc' = [proc EXCEPT ![p].pc = "reservation_set_status_commit"]
            /\ UNCHANGED lock
    /\ UNCHANGED <<balance, vehicle, rental, reservation>>

(* the checks and reservation.save(); only the reservation's own row is
   locked, the conflict queries are plain reads of the committed rows *)
reservation_set_status_body(p) ==
    LET pr == proc[p]
        row == reservation[pr.qid]
    IN
    /\ pr.pc = "reservation_set_status_body"
    /\ IF row.status = CANCELLED
         THEN Respond(p, "400_cancelled")
       ELSE IF row.status = CONFIRMED /\ pr.st = PENDING
         THEN Respond(p, "400_revert")
       ELSE IF pr.st \notin ReservationStatuses
         THEN Respond(p, "400_invalid_status")
       ELSE IF pr.st = CONFIRMED /\ ActiveRentalOverlap(row.car, row.s, row.e)
         THEN Respond(p, "400_rented")
       ELSE IF pr.st = CONFIRMED
               /\ ConfirmedReservationOverlap(row.car, row.s, row.e, pr.qid)
         THEN Respond(p, "400_reserved")
       ELSE /\ proc' = [proc EXCEPT ![p].pc = "reservation_set_status_commit"]
            /\ UNCHANGED lock
    /\ UNCHANGED <<balance, vehicle, rental, reservation>>

(* return Response(...): the atomic block ends and the new status commits *)
reservation_set_status_commit(p) ==
    LET pr == proc[p] IN
    /\ pr.pc = "reservation_set_status_commit"
    /\ reservation' = [reservation EXCEPT ![pr.qid].status = pr.st]
    /\ Respond(p, "200")
    /\ UNCHANGED <<balance, vehicle, rental>>

-----------------------------------------------------------------------------
(* ReservationViewSet.cancel: POST /rentals/reservations/<pk>/cancel/ *)

reservation_cancel_start(p, u, q) ==
    /\ proc[p].pc = "idle"
    /\ proc' = [proc EXCEPT ![p] =
                 [Idle EXCEPT !.pc = "reservation_cancel_lock",
                              !.op = "reservation_cancel",
                              !.user = u, !.qid = q]]
    /\ UNCHANGED <<balance, vehicle, rental, reservation, lock>>

(* ReservationModel.objects.select_for_update().get(pk=pk) *)
reservation_cancel_lock(p) ==
    LET pr == proc[p] IN
    /\ pr.pc = "reservation_cancel_lock"
    /\ Free(pr.qid, p)
    /\ IF reservation[pr.qid].exists
         THEN /\ lock' = [lock EXCEPT ![pr.qid] = p]
              /\ proc' = [proc EXCEPT ![p].pc = "reservation_cancel_body"]
         ELSE Respond(p, "500_does_not_exist")
    /\ UNCHANGED <<balance, vehicle, rental, reservation>>

(* the cancellation without the check of role and ownership *)
reservation_cancel_body_anyone(p) ==
    LET pr == proc[p]
        row == reservation[pr.qid]
    IN
    /\ pr.pc = "reservation_cancel_body"
    /\ IF row.status \in {PENDING, CONFIRMED}
         THEN /\ reservation' = [reservation EXCEPT
                                   ![pr.qid].status = CANCELLED]
              /\ Respond(p, "200")
       ELSE Respond(p, "400_cancelled") /\ UNCHANGED reservation
    /\ UNCHANGED <<balance, vehicle, rental>>

(* role and ownership, then the status, then reservation.save() *)

reservation_cancel_body(p) ==
    LET pr == proc[p]
        row == reservation[pr.qid]
    IN
    /\ pr.pc = "reservation_cancel_body"
    /\ IF role(pr.user) # CLIENT \/ row.client # pr.user
         THEN Respond(p, "403") /\ UNCHANGED reservation
       ELSE IF row.status \in {PENDING, CONFIRMED}
         THEN /\ reservation' = [reservation EXCEPT
                                   ![pr.qid].status = CANCELLED]
              /\ Respond(p, "200")
       ELSE Respond(p, "400_cancelled") /\ UNCHANGED reservation
    /\ UNCHANGED <<balance, vehicle, rental>>

-----------------------------------------------------------------------------
(* ReservationViewSet.update / partial_update / destroy: PUT, PATCH and
   DELETE /rentals/reservations/<pk>/.  http_method_names holds only get
   and post, and the three handlers return 405 themselves. *)

reservation_update(p, u, q) ==
    /\ proc[p].pc = "idle"
    /\ proc' = [proc EXCEPT ![p] =
                 [Idle EXCEPT !.op = "reservation_update", !.user = u,
                              !.resp = "405"]]
    /\ UNCHANGED <<balance, vehicle, rental, reservation, lock>>

reservation_partial_update(p, u, q) ==
    /\ proc[p].pc = "idle"
    /\ proc' = [proc EXCEPT ![p] =
                 [Idle EXCEPT !.op = "reservation_partial_update", !.user = u,
                              !.resp = "405"]]
    /\ UNCHANGED <<balance, vehicle, rental, reservation, lock>>

(* ModelViewSet's own destroy: get_object() and instance.delete() *)
reservation_destroy_default(p, u, q) ==
    /\ proc[p].pc = "idle"
    /\ Free(q, p)
    /\ IF reservation[q].exists
            /\ (role(u) = MANAGER \/ reservation[q].client = u)
         THEN /\ reservation' = [reservation EXCEPT ![q] = NoReservation]
              /\ proc' = [proc EXCEPT ![p] =
                           [Idle EXCEPT !.op = "reservation_destroy",
                                        !.user = u, !.resp = "204"]]
         ELSE /\ proc' = [proc EXCEPT ![p] =
                           [Idle EXCEPT !.op = "reservation_destroy",
                                        !.user = u, !.resp = "404"]]
              /\ UNCHANGED reservation
    /\ UNCHANGED <<balance, vehicle, rental, lock>>

reservation_destroy(p, u, q) ==
    /\ proc[p].pc = "idle"
    /\ proc' = [proc EXCEPT ![p] =
                 [Idle EXCEPT !.op = "reservation_destroy", !.user = u,
                              !.resp = "405"]]
    /\ UNCHANGED <<balance, vehicle, rental, reservation, lock>>

-----------------------------------------------------------------------------
(* VehicleViewSet.set_status: POST /vehicles/<pk>/set-status/ (no transaction) *)

vehicle_set_status_start(p, u, v, st) ==
    /\ proc[p].pc = "idle"
    /\ proc' = [proc EXCEPT ![p] =
                 [Idle EXCEPT !.pc = "vehicle_set_status_read",
                              !.op = "vehicle_set_status",
                              !.user = u, !.car = v, !.st = st]]
    /\ UNCHANGED <<balance, vehicle, rental, reservation, lock>>

(* the role check, self.get_object() and serializer.is_valid() *)
vehicle_set_status_read(p) ==
    LET pr == proc[p] IN
    /\ pr.pc = "vehicle_set_status_read"
    /\ IF role(pr.user) # MANAGER THEN Respond(p, "403")
       ELSE IF pr.st \notin VehicleStatuses THEN Respond(p, "400_validation")
       ELSE /\ proc' = [proc EXCEPT ![p].pc = "vehicle_set_status_save",
                                    ![p].vsnap = vehicle[pr.car]]
            /\ UNCHANGED lock
    /\ UNCHANGED <<balance, vehicle, rental, reservation>>

(* serializer.save(): instance.save(), an UPDATE of every column *)
vehicle_set_status_save(p) ==
    LET pr == proc[p] IN
    /\ pr.pc = "vehicle_set_status_save"
    /\ Free(pr.car, p)
    /\ vehicle' = [vehicle EXCEPT ![pr.car] = [pr.vsnap EXCEPT !.status = pr.st]]
    /\ Respond(p, "200")
    /\ UNCHANGED <<balance, rental, reservation>>

-----------------------------------------------------------------------------
(* TopUpView.post: POST /users/top-up/ (no transaction) *)

top_up_start(p, u, target, amt) ==
    /\ proc[p].pc = "idle"
    /\ proc' = [proc EXCEPT ![p] =
                 [Idle EXCEPT !.pc = "top_up_read", !.op = "top_up",
                              !.user = u, !.target = target, !.amt = amt]]
    /\ UNCHANGED <<balance, vehicle, rental, reservation, lock>>

(* TopUpSerializer.validate, the role check and
   UserModel.objects.get(id=user_id): a plain read of the balance *)
top_up_read(p) ==
    LET pr == proc[p] IN
    /\ pr.pc = "top_up_read"
    /\ IF pr.amt <= 0 \/ role(pr.target) = MANAGER THEN Respond(p, "400_validation")
       ELSE IF role(pr.user) # MANAGER THEN Respond(p, "403")
       ELSE /\ proc' = [proc EXCEPT ![p].pc = "top_up_save",
                                    ![p].bsnap = balance[pr.target]]
            /\ UNCHANGED lock
    /\ UNCHANGED <<balance, vehicle, rental, reservation>>

(* user.balance += amount; user.save(): the balance read earlier plus the
   amount is written back *)
top_up_save(p) ==
    LET pr == proc[p] IN
    /\ pr.pc = "top_up_save"
    /\ Free(pr.target, p)
    /\ balance' = [balance EXCEPT ![pr.target] = pr.bsnap + pr.amt]
    /\ Respond(p, "200")
    /\ UNCHANGED <<vehicle, rental, reservation>>

-----------------------------------------------------------------------------
(* PaymentViewSet.create with PaymentSerializer.create: POST /payments/ *)

(* IsClient lets only clients post; request.user, balance included, is read
   when the request is authenticated *)
payment_start(p, u, amt) ==
    /\ proc[p].pc = "idle"
    /\ role(u) = CLIENT
    /\ proc' = [proc EXCEPT ![p] =
                 [Idle EXCEPT !.pc = "payment_save", !.op = "payment",
                              !.user = u, !.amt = amt,
                              !.bsnap = balance[u]]]
    /\ UNCHANGED <<balance, vehicle, rental, reservation, lock>>

(* user = payment.user; user.balance += payment.amount; user.save() *)
payment_save(p) ==
    LET pr == proc[p] IN
    /\ pr.pc = "payment_save"
    /\ Free(pr.user, p)
    /\ balance' = [balance EXCEPT ![pr.user] = pr.bsnap + pr.amt]
    /\ Respond(p, "201")
    /\ UNCHANGED <<vehicle, rental, reservation>>

-----------------------------------------------------------------------------
(* The rows the service starts with.  Neither create view can store a row
   (see create_save, reservation_create_body), so rentals and reservations
   enter through the ORM or the admin site, as the fixtures of
   rentals/tests.py do; they start as a successful create is documented to
   leave them: PENDING, priced, the vehicle AVAILABLE. *)

SeedRental(c, v, s, e) ==
    [exists |-> TRUE, client |-> c, car |-> v, s |-> s, e |-> e,
     total |-> total_amount(v, s, e), status |-> PENDING, ret |-> None]

SeedReservation(c, v, s, e) ==
    [exists |-> TRUE, client |-> c, car |-> v, s |-> s, e |-> e,
     status |-> PENDING]

(* intervals a create accepts: now <= start < end *)
FutureIntervals ==
    {iv \in Times \X Times : iv[1] >= Now /\ iv[1] < iv[2]}

InitRest ==
    /\ vehicle = [v \in Vehicles |-> [status |-> AVAILABLE, station |-> "s1"]]
    /\ lock = [x \in Rows |-> NoProc]
    /\ proc = [p \in Procs |-> Idle]

-----------------------------------------------------------------------------
(* Reservations alone: create, set-status and cancel, two requests at a time *)

InitReservations ==
    /\ balance = [c \in Clients |-> 2]
    /\ rental = [r \in RentalIds |->
                   IF r = "r1" THEN SeedRental("c1", "v1", 3, 4) ELSE NoRental]
    /\ reservation = [q \in ResvIds |->
                   IF q = "q1" THEN SeedReservation("c1", "v1", 1, 3)
                               ELSE SeedReservation("c2", "v1", 2, 4)]
    /\ InitRest

NextReservations ==
    \E p \in Procs :
        \/ \E u \in Clients, iv \in {<<2, 4>>, <<4, 4>>} :
              reservation_create_start(p, u, "v1", iv[1], iv[2])
        \/ reservation_create_lock(p)
        \/ reservation_create_body(p)
        \/ \E u \in {"m1", "c1"}, q \in ResvIds, st \in ReservationStatuses :
              reservation_set_status_start(p, u, q, st)
        \/ reservation_set_status_lock(p)
        \/ reservation_set_status_body(p)
        \/ reservation_set_status_commit(p)
        \/ \E u \in Users, q \in ResvIds : reservation_cancel_start(p, u, q)
        \/ reservation_cancel_lock(p)
        \/ reservation_cancel_body(p)

SpecReservations == InitReservations /\ [][NextReservations]_vars

(* C1: in every reachable state no two CONFIRMED reservations for the same
   vehicle have overlapping intervals. *)
C1_NoTwoConfirmedOverlap ==
    \A x \in ResvIds, y \in ResvIds :
        ( /\ x # y
          /\ reservation[x].exists /\ reservation[y].exists
          /\ reservation[x].status = CONFIRMED
          /\ reservation[y].status = CONFIRMED
          /\ reservation[x].car = reservation[y].car )
        => ~Overlaps(reservation[x].s, reservation[x].e,
                     reservation[y].s, reservation[y].e)

ReservationTransitions ==
    {<<PENDING, CONFIRMED>>, <<PENDING, CANCELLED>>, <<CONFIRMED, CANCELLED>>}

(* C22: every change of a reservation's status is PENDING->CONFIRMED,
   PENDING->CANCELLED or CONFIRMED->CANCELLED: a CANCELLED reservation
   never changes again under set-status or cancel, and a CONFIRMED one
   never returns to PENDING. *)
C22_ReservationStatusMachine ==
    [][\A q \in ResvIds :
          (reservation[q].exists /\ reservation'[q].exists
           /\ reservation'[q].status # reservation[q].status)
          => <<reservation[q].status, reservation'[q].status>>
                \in ReservationTransitions]_vars

(* a set-status on a CANCELLED reservation and a set-status PENDING on a
   CONFIRMED one have both been refused *)
C22_ChangeRefused ==
    /\ reservation["q1"].status = CANCELLED
    /\ reservation["q2"].status = CONFIRMED
    /\ \E p \in Procs, o \in Procs :
           /\ proc[p].op = "reservation_set_status"
           /\ proc[p].resp = "400_cancelled"
           /\ proc[o].op = "reservation_set_status"
           /\ proc[o].resp = "400_revert"

(* ReservationModel.objects.filter(client=u, car=v,
   status__in=[PENDING, CONFIRMED], start_date__lte=e, end_date__gte=s) *)
OwnOpenReservationOverlap(u, v, s, e) ==
    \E x \in ResvIds :
        /\ reservation[x].exists /\ reservation[x].client = u
        /\ reservation[x].car = v
        /\ reservation[x].status \in {PENDING, CONFIRMED}
        /\ Overlaps(reservation[x].s, reservation[x].e, s, e)

(* p answers a POST /rentals/reservations/ *)
AnswersReservationCreate(p) ==
    /\ proc[p].op = "reservation_create"
    /\ proc[p].pc = "reservation_create_body"
    /\ proc'[p].pc = "idle"

(* C24: a reservation request is refused as a conflict exactly when its
   interval overlaps one of the same client's PENDING or CONFIRMED
   reservations of the vehicle or an ACTIVE rental of the vehicle; a client
   with a PENDING or CONFIRMED reservation of the vehicle is not refused
   for an interval that overlaps nothing. *)
C24_CreateRefusedIffOverlap ==
    [][\A p \in Procs :
          AnswersReservationCreate(p)
          => ( proc'[p].resp \in {"400_own_reservation", "400_rented"}
               <=> \/ OwnOpenReservationOverlap(proc[p].user, proc[p].car,
                                                proc[p].s, proc[p].e)
                   \/ ActiveRentalOverlap(proc[p].car,
                                          proc[p].s, proc[p].e) )]_vars

ReservationOps ==
    {"reservation_create", "reservation_set_status", "reservation_cancel"}

(* C27: a client's cancel of their own PENDING or CONFIRMED reservation
   and a manager's set-status CANCELLED on one succeed and make it
   CANCELLED; a cancel by a client who does not own the reservation is
   answered 403 and changes nothing; and no step of a reservation create,
   set-status or cancel changes a balance, a rental or a vehicle. *)
C27_CancelByOwnerOrManager ==
    [][\A p \in Procs :
          (proc[p].op \in ReservationOps /\ proc'[p] # proc[p])
          => LET q == proc[p].qid
                 open == reservation[q].status \in {PENDING, CONFIRMED}
             IN
             /\ UNCHANGED <<balance, rental, vehicle>>
             /\ (proc[p].pc = "reservation_cancel_body"
                 /\ proc[p].user = reservation[q].client /\ open)
                => /\ proc'[p].resp = "200"
                   /\ reservation' =
                        [reservation EXCEPT ![q].status = CANCELLED]
             /\ (proc[p].pc = "reservation_cancel_body"
                 /\ role(proc[p].user) = CLIENT
                 /\ proc[p].user # reservation[q].client)
                => proc'[p].resp = "403" /\ UNCHANGED reservation
             /\ (proc[p].pc = "reservation_set_status_body"
                 /\ proc[p].st = CANCELLED /\ open)
                => proc'[p].pc = "reservation_set_status_commit"
             /\ (proc[p].pc = "reservation_set_status_commit"
                 /\ proc[p].st = CANCELLED)
                => /\ proc'[p].resp = "200"
                   /\ reservation' =
                        [reservation EXCEPT ![q].status = CANCELLED]]_vars

(* c1 has cancelled their reservation q1, the manager has cancelled q2,
   and balances, rentals and vehicles are as they were *)
C27_BothCancelled ==
    /\ reservation["q1"].status = CANCELLED
    /\ reservation["q2"].status = CANCELLED
    /\ \E p \in Procs, o \in Procs :
           /\ proc[p].op = "reservation_cancel" /\ proc[p].user = "c1"
           /\ proc[p].resp = "200"
           /\ proc[o].op = "reservation_set_status" /\ proc[o].user = "m1"
           /\ proc[o].resp = "200"
    /\ balance = [c \in Clients |-> 2]
    /\ rental["r1"] = SeedRental("c1", "v1", 3, 4)
    /\ \A v \in Vehicles : vehicle[v].status = AVAILABLE

(* every request on reservations: the three above and PUT, PATCH, DELETE *)
NextReservationRequests ==
    \/ NextReservations
    \/ \E p \in Procs, u \in Users, q \in ResvIds :
          \/ reservation_update(p, u, q)
          \/ reservation_partial_update(p, u, q)
          \/ reservation_destroy(p, u, q)

SpecReservationRequests ==
    InitReservations /\ [][NextReservationRequests]_vars

ReservationWriteOps ==
    {"reservation_update", "reservation_partial_update",
     "reservation_destroy"}

(* C28: every update, partial update and delete of a reservation is
   answered 405 and leaves the reservations as they were; no step of any
   request removes a reservation or changes its client, vehicle or
   interval, only its status. *)
C28_ReservationsAreFixed ==
    [][/\ \A p \in Procs :
             (proc'[p] # proc[p] /\ proc'[p].op \in ReservationWriteOps)
             => proc'[p].resp = "405" /\ UNCHANGED reservation
       /\ \A q \in ResvIds :
             reservation[q].exists
             => reservation'[q] =
                  [reservation[q] EXCEPT !.status = reservation'[q].status]
      ]_vars

(* a PATCH and a DELETE have been answered 405 and both reservations are
   still there, PENDING as they were created *)
C28_WritesRefused ==
    /\ \E p \in Procs, o \in Procs :
           /\ proc[p].op = "reservation_partial_update"
           /\ proc[p].resp = "405"
           /\ proc[o].op = "reservation_destroy" /\ proc[o].resp = "405"
    /\ reservation["q1"] = SeedReservation("c1", "v1", 1, 3)
    /\ reservation["q2"] = SeedReservation("c2", "v1", 2, 4)

-----------------------------------------------------------------------------
(* Reservations against rentals: confirmation, activation and the updates
   of a rental's dates *)

InitOverlap ==
    /\ balance = [c \in Clients |-> 2]
    /\ rental = [r \in RentalIds |->
                   IF r = "r1" THEN SeedRental("c1", "v1", 3, 4) ELSE NoRental]
    /\ reservation = [q \in ResvIds |->
                   IF q = "q1" THEN SeedReservation("c1", "v1", 1, 2)
                               ELSE SeedReservation("c2", "v1", 2, 4)]
    /\ InitRest

NextOverlap ==
    \E p \in Procs :
        \/ \E q \in ResvIds, st \in {CONFIRMED, CANCELLED} :
              reservation_set_status_start(p, "m1", q, st)
        \/ reservation_set_status_lock(p)
        \/ reservation_set_status_body(p)
        \/ reservation_set_status_commit(p)
        \/ \E st \in {ACTIVE, CANCELLED} : set_status_start(p, "m1", "r1", st)
        \/ set_status_lock(p)
        \/ set_status_check(p)
        \/ set_status_refund(p)
        \/ set_status_vehicle(p)
        \/ \E u \in {"c1", "m1"}, iv \in {<<1, 2>>, <<3, 4>>} :
              update_start(p, u, "r1", None, None, None, iv[1], iv[2])
        \/ update_lock_user(p)
        \/ update_lock_rental(p)
        \/ update_body(p)
        \/ update_commit(p)

SpecOverlap == InitOverlap /\ [][NextOverlap]_vars

(* C2: in every reachable state no CONFIRMED reservation overlaps the
   interval of an ACTIVE rental for the same vehicle. *)
C2_NoConfirmedOverlapsActive ==
    \A x \in ResvIds, r \in RentalIds :
        ( /\ reservation[x].exists /\ rental[r].exists
          /\ reservation[x].status = CONFIRMED
          /\ rental[r].status = ACTIVE
          /\ reservation[x].car = rental[r].car )
        => ~Overlaps(reservation[x].s, reservation[x].e,
                     rental[r].s, rental[r].e)


(* the PENDING reservations of the vehicle of rental r that overlap its
   interval *)
PendingReservationsOver(r) ==
    {q \in ResvIds :
        /\ reservation[q].exists /\ reservation[q].car = rental[r].car
        /\ reservation[q].status = PENDING
        /\ Overlaps(reservation[q].s, reservation[q].e,
                    rental[r].s, rental[r].e)}

(* C17: the step in which the manager's set-status ACTIVE of a PENDING
   rental succeeds sets the vehicle RENTED and cancels every PENDING
   reservation of that vehicle that overlaps the rental's interval. *)
C17_ActivationCancelsPendingReservations ==
    [][\A p \in Procs :
          ( /\ proc[p].op = "set_status" /\ proc[p].st = ACTIVE
            /\ proc[p].pc # "idle"
            /\ proc'[p].pc = "idle" /\ proc'[p].resp = "200" )
          => /\ vehicle'[rental[proc[p].rid].car].status = RENTED
             /\ \A q \in PendingReservationsOver(proc[p].rid) :
                    reservation'[q].status = CANCELLED]_vars

(* C33: a set-status ACTIVE on a PENDING rental whose interval a CONFIRMED
   reservation of the same vehicle overlaps is refused as reserved, with
   the rental still PENDING and the vehicle as it was; and a set-status
   ACTIVE that answers 200 found the rental PENDING. *)
C33_ActivationRefusedWhenReserved ==
    [][\A p \in Procs :
          LET pr == proc[p]
              row == rental[pr.rid]
              reserved ==
                  \E q \in ResvIds :
                      /\ reservation[q].exists
                      /\ reservation[q].car = row.car
                      /\ reservation[q].status = CONFIRMED
                      /\ reservation[q].s <= row.e /\ row.s <= reservation[q].e
          IN
          (pr.op = "set_status" /\ pr.st = ACTIVE /\ proc'[p] # pr)
          => /\ (pr.pc = "set_status_check" /\ row.status = PENDING
                 /\ reserved)
                => /\ proc'[p].resp = "400_reserved"
                   /\ UNCHANGED <<rental, vehicle, balance>>
             /\ (pr.pc = "set_status_check" /\ row.status # PENDING)
                => /\ proc'[p].resp = "400_transition"
                   /\ UNCHANGED <<rental, vehicle, balance>>
             /\ proc'[p].resp = "200"
                => row.status = PENDING /\ rental'[pr.rid].status = ACTIVE
      ]_vars

(* the activation of r1 was refused as reserved: q2, which overlaps r1, is
   CONFIRMED, r1 is still PENDING and v1 AVAILABLE *)
C33_ActivationRefused ==
    /\ \E p \in Procs :
           proc[p].op = "set_status" /\ proc[p].resp = "400_reserved"
    /\ reservation["q2"].status = CONFIRMED
    /\ rental["r1"].status = PENDING
    /\ vehicle["v1"].status = AVAILABLE

-----------------------------------------------------------------------------
(* Two rentals of one client on one vehicle: activation, cancellation,
   completion, return, and the manager's setting of the vehicle's status *)

InitActivation ==
    /\ balance = [c \in Clients |-> 2]
    /\ rental = [r \in RentalIds |->
                   IF r = "r1" THEN SeedRental("c1", "v1", 2, 4)
                               ELSE SeedRental("c1", "v1", 2, 3)]
    /\ reservation = [q \in ResvIds |-> NoReservation]
    /\ InitRest

NextActivation ==
    \E p \in Procs :
        \/ create_start(p, "c1", "v1", "s1", 2, 4)
        \/ create_lock_user(p)
        \/ create_lock_vehicle(p)
        \/ create_check(p)
        \/ create_save(p)
        \/ \E r \in RentalIds, st \in {ACTIVE, CANCELLED, COMPLETED} :
              set_status_start(p, "m1", r, st)
        \/ set_status_lock(p)
        \/ set_status_check(p)
        \/ set_status_refund(p)
        \/ set_status_vehicle(p)
        \/ \E near \in BOOLEAN : return_start(p, "c1", "s2", near)
        \/ return_read(p)
        \/ return_save_rental(p)
        \/ return_save_vehicle(p)
        \/ \E st \in {AVAILABLE, MAINTENANCE} :
              vehicle_set_status_start(p, "m1", "v1", st)
        \/ vehicle_set_status_read(p)
        \/ vehicle_set_status_save(p)

SpecActivation == InitActivation /\ [][NextActivation]_vars

(* C3: in every reachable state each client has at most one rental with
   status ACTIVE (and a create by a client with an ACTIVE rental is
   refused). *)
C3_AtMostOneActivePerClient ==
    \A c \in Clients : Cardinality(ActiveRentalsOf(c)) <= 1

(* C4: in every reachable state a vehicle has status RENTED if and only if a
   rental for that vehicle has status ACTIVE. *)
C4_RentedIffActive ==
    \A v \in Vehicles :
        vehicle[v].status = RENTED
          <=> \E r \in RentalIds : /\ rental[r].exists /\ rental[r].car = v
                                   /\ rental[r].status = ACTIVE

-----------------------------------------------------------------------------
(* The requests that move money on one rental: the rental requests of the
   clients, the manager's set-status and top-ups.  Top-ups are sent only
   while the clients hold little money, which keeps the balances bounded. *)

InitBalance ==
    /\ balance = [c \in Clients |-> IF c = "c1" THEN 2 ELSE 0]
    /\ rental = [r \in RentalIds |->
                   IF r = "r1" THEN SeedRental("c1", "v1", 2, 4) ELSE NoRental]
    /\ reservation = [q \in ResvIds |-> NoReservation]
    /\ InitRest

NextBalance ==
    \E p \in Procs :
        \/ \E u \in {"c1"} : create_start(p, u, "v1", "s1", 2, 4)
        \/ create_lock_user(p)
        \/ create_lock_vehicle(p)
        \/ create_check(p)
        \/ create_save(p)
        \/ \E u \in Clients, r \in {"r1"},
              req \in {<<CANCELLED, NoTime, NoTime>>, <<None, 1, 4>>,
                       <<None, 2, 3>>} :
              update_start(p, u, r, req[1], None, None, req[2], req[3])
        \/ update_lock_user(p)
        \/ update_lock_rental(p)
        \/ update_body(p)
        \/ update_commit(p)
        \/ \E u \in {"c1"}, r \in {"r1"} : destroy_start(p, u, r)
        \/ destroy_check(p)
        \/ destroy_delete(p)
        \/ \E r \in {"r1"}, st \in {ACTIVE, CANCELLED} :
              set_status_start(p, "m1", r, st)
        \/ set_status_lock(p)
        \/ set_status_check(p)
        \/ set_status_refund(p)
        \/ set_status_vehicle(p)
        \/ \E target \in {"c1"} :
              /\ balance["c1"] + balance["c2"] + 2 <= MaxBalance
              /\ top_up_start(p, "m1", target, 2)
        \/ top_up_read(p)
        \/ top_up_save(p)

SpecBalance == InitBalance /\ [][NextBalance]_vars

(* C5: in every reachable state the balance of every client is at least
   zero, whatever rental requests ran and however they interleaved. *)
C5_BalanceNeverNegative == \A c \in Clients : balance[c] >= 0

(* a client has paid for a longer rental with all the money they had *)
C5_DebitedToZero ==
    \E p \in Procs :
        /\ proc[p].op = "update" /\ proc[p].resp = "200"
        /\ proc[p].user = "c1"
        /\ balance["c1"] = 0
        /\ rental["r1"].exists
        /\ rental["r1"].total = total_amount("v1", 1, 4)

(* p takes a step of a client's request to change the dates of a rental *)
ClientDatesStep(p) ==
    /\ proc[p].op = "update" /\ role(proc[p].user) = CLIENT
    /\ proc[p].st # CANCELLED /\ proc[p].s # NoTime
    /\ proc[p].pc \in {"update_body", "update_commit"}
    /\ proc'[p] # proc[p]

(* C31: a client's change of dates on a rental that is not PENDING is
   refused, and no step of it changes the rental or a balance. *)
C31_DatesOnlyWhilePending ==
    [][\A p \in Procs :
          (ClientDatesStep(p) /\ rental[proc[p].rid].exists
           /\ rental[proc[p].rid].status # PENDING)
          => /\ proc'[p].resp \notin {None, "200"}
             /\ UNCHANGED <<rental, balance>>]_vars

(* C32: when the owner's change of dates on their PENDING rental answers
   200, the rental holds the new dates and their price and the owner's
   balance has changed by the old total_amount minus the new one, nobody
   else's; when the price rises by more than the owner's balance the
   request is refused as insufficient balance and changes nothing. *)
C32_DatesChangeSettlesDifference ==
    [][\A p \in Procs :
          LET pr == proc[p]
              row == rental[pr.rid]
          IN
          (ClientDatesStep(p) /\ row.exists /\ row.status = PENDING
           /\ pr.user = row.client)
          => /\ proc'[p].resp = "200"
                => /\ rental'[pr.rid].total
                        = total_amount(row.car, rental'[pr.rid].s,
                                       rental'[pr.rid].e)
                   /\ <<rental'[pr.rid].s, rental'[pr.rid].e>> = <<pr.s, pr.e>>
                   /\ balance' = [balance EXCEPT ![pr.user] =
                                    @ + row.total - rental'[pr.rid].total]
             /\ (pr.pc = "update_body" /\ pr.s < pr.e
                 /\ total_amount(row.car, pr.s, pr.e) - row.total
                      > balance[pr.user])
                => /\ proc'[p].resp \in {"400_insufficient_balance",
                                         "400_reserved"}
                   /\ UNCHANGED <<rental, balance>>]_vars

(* c1 asked for a longer interval for r1 than their balance covers and was
   refused; r1 and the empty balance are as they were *)
C32_RaiseRefused ==
    /\ \E p \in Procs :
           /\ proc[p].op = "update" /\ proc[p].user = "c1"
           /\ proc[p].resp = "400_insufficient_balance"
    /\ rental["r1"].exists /\ rental["r1"].status = PENDING
    /\ rental["r1"].total = daily_price("v1")
    /\ balance["c1"] = 0

(* C38: a client's cancel or change of dates on a rental of another
   client is refused by the step that decides it, and changes no rental
   and no balance. *)
C38_OnlyOwnerUpdates ==
    [][\A p \in Procs :
          LET pr == proc[p] IN
          ( /\ pr.op = "update" /\ role(pr.user) = CLIENT
            /\ pr.pc \in {"update_body", "update_commit"}
            /\ proc'[p] # pr
            /\ rental[pr.rid].exists /\ rental[pr.rid].client # pr.user )
          => /\ proc'[p].resp \notin {None, "200"}
             /\ UNCHANGED <<rental, balance>>]_vars

-----------------------------------------------------------------------------
(* Two POST /rentals/ requests that the server has accepted and runs
   concurrently, for one vehicle and one interval.  Each client can pay for
   the longest rental; the requests are valid ones. *)

RaceBalance == [c \in Clients |-> 2 * daily_price("v1")]

CreateRequest(u, v, pick, s, e) ==
    [Idle EXCEPT !.pc = "create_lock_user", !.op = "create", !.user = u,
                 !.car = v, !.station = pick, !.s = s, !.e = e]

InitRaceRest ==
    /\ balance = RaceBalance
    /\ rental = [r \in RentalIds |-> NoRental]
    /\ reservation = [q \in ResvIds |-> NoReservation]
    /\ vehicle = [v \in Vehicles |-> [status |-> AVAILABLE, station |-> "s1"]]
    /\ lock = [x \in Rows |-> NoProc]

InitCreateRace ==
    /\ InitRaceRest
    /\ \E u1 \in Clients, u2 \in Clients, v \in Vehicles,
          iv \in FutureIntervals :
          proc = [p \in Procs |->
                    CreateRequest(IF p = "p1" THEN u1 ELSE u2, v, "s1",
                                  iv[1], iv[2])]

NextCreateRace ==
    \E p \in Procs :
        \/ create_lock_user(p)
        \/ create_lock_vehicle(p)
        \/ create_check(p)
        \/ create_save(p)

SpecCreateRace == InitCreateRace /\ [][NextCreateRace]_vars

(* the refusals of create() that report a conflict *)
ConflictResponses == {"400_active_rental", "400_reserved"}

(* both requests have been answered *)
BothAnswered == \A p \in Procs : proc[p].pc = "idle" /\ proc[p].op = "create"

(* C6: when two CreateRental requests for the same vehicle and the same
   interval have run concurrently, exactly one was answered 201 and the
   other was refused with a conflict. *)
C6_ExactlyOneCreateWins ==
    BothAnswered =>
        \E p \in Procs :
            /\ proc[p].resp = "201"
            /\ \A o \in Procs \ {p} : proc[o].resp \in ConflictResponses

-----------------------------------------------------------------------------
(* Two concurrent POST /rentals/ requests of one client, for any vehicles
   and any future intervals *)

InitDebitRace ==
    /\ InitRaceRest
    /\ \E u \in Clients, v1 \in Vehicles, v2 \in Vehicles,
          iv1 \in FutureIntervals, iv2 \in FutureIntervals :
          proc = [p \in Procs |->
                    IF p = "p1"
                      THEN CreateRequest(u, v1, "s1", iv1[1], iv1[2])
                      ELSE CreateRequest(u, v2, "s1", iv2[1], iv2[2])]

NextDebitRace ==
    \E p \in Procs :
        \/ create_lock_user(p)
        \/ create_lock_vehicle(p)
        \/ create_check(p)
        \/ create_save(p)

SpecDebitRace == InitDebitRace /\ [][NextDebitRace]_vars

PendingRentalsOf(u) ==
    {r \in RentalIds : rental[r].exists /\ rental[r].client = u
                       /\ rental[r].status = PENDING}

(* C7: once two concurrent CreateRental calls of one client have been
   answered, the client has exactly one PENDING rental, has been debited
   exactly once (its price), and the balance is not negative. *)
C7_OneRentalOneDebit ==
    BothAnswered =>
        \A u \in Clients :
            (\A p \in Procs : proc[p].user = u) =>
                /\ Cardinality(PendingRentalsOf(u)) = 1
                /\ \A r \in PendingRentalsOf(u) :
                       balance[u] = RaceBalance[u] - rental[r].total
                /\ balance[u] >= 0

(* the transaction of p has debited the client and not ended yet *)
HoldsDebit(p) == proc[p].pc = "create_save" /\ proc[p].debited > 0

(* C8: the debits of two concurrent creates of one client are serialized:
   the two are never in effect together, a debit in effect never exceeds
   the balance, and the two requests are never both answered 201. *)
C8_DebitsSerialized ==
    /\ \A p \in Procs, o \in Procs :
           (p # o /\ proc[p].user = proc[o].user)
             => ~(HoldsDebit(p) /\ HoldsDebit(o))
    /\ \A p \in Procs :
           HoldsDebit(p) => proc[p].debited <= balance[proc[p].user]
    /\ ~(\A p \in Procs : proc[p].resp = "201")

(* one request has debited a balance that covers either rental but not
   both, while the other request of the same client waits for the user row *)
C8_SecondDebitWaits ==
    \E p \in Procs, o \in Procs :
        /\ p # o /\ proc[p].user = proc[o].user
        /\ HoldsDebit(p)
        /\ proc[o].pc = "create_lock_user"
        /\ total_amount(proc[o].car, proc[o].s, proc[o].e)
             <= balance[proc[o].user]
        /\ proc[p].debited
             + total_amount(proc[o].car, proc[o].s, proc[o].e)
             > balance[proc[p].user]

-----------------------------------------------------------------------------
(* Credits of client c1 (the manager's top-up, the client's own payment)
   next to the requests that debit or refund c1 through the rental r1.
   Credits are sent only while c1 holds little money, which keeps the
   balance bounded. *)

InitCredit ==
    /\ balance = [c \in Clients |-> IF c = "c1" THEN 2 ELSE 0]
    /\ rental = [r \in RentalIds |->
                   IF r = "r1" THEN SeedRental("c1", "v1", 2, 4) ELSE NoRental]
    /\ reservation = [q \in ResvIds |-> NoReservation]
    /\ InitRest

NextCredit ==
    \E p \in Procs :
        \/ /\ balance["c1"] + 2 <= MaxBalance
           /\ top_up_start(p, "m1", "c1", 2)
        \/ top_up_read(p)
        \/ top_up_save(p)
        \/ /\ balance["c1"] + 2 <= MaxBalance
           /\ payment_start(p, "c1", 2)
        \/ payment_save(p)
        \/ \E req \in {<<CANCELLED, NoTime, NoTime>>, <<None, 1, 4>>,
                       <<None, 2, 3>>} :
              update_start(p, "c1", "r1", req[1], None, None, req[2], req[3])
        \/ update_lock_user(p)
        \/ update_lock_rental(p)
        \/ update_body(p)
        \/ update_commit(p)

SpecCredit == InitCredit /\ [][NextCredit]_vars

(* the client a credit request pays into *)
CreditedClient(pr) == IF pr.op = "top_up" THEN pr.target ELSE pr.user

(* C9: a credit is atomic: the step that writes a top-up or a payment of
   amount a raises the balance the client has at that moment by a, so no
   concurrent debit or refund is lost. *)
C9_CreditIsAtomic ==
    [][\A p \in Procs :
          ( /\ proc[p].pc \in {"top_up_save", "payment_save"}
            /\ proc'[p].pc = "idle" )
          => balance'[CreditedClient(proc[p])]
               = balance[CreditedClient(proc[p])] + proc[p].amt]_vars

-----------------------------------------------------------------------------
(* POST /rentals/ requests of every kind, valid and invalid, against a
   database in which c2 has the ACTIVE rental r1 of vehicle v2 and a
   CONFIRMED reservation q1 of v2 *)

InitCreate ==
    /\ balance = [c \in Clients |-> IF c = "c1" THEN 2 ELSE 4]
    /\ rental = [r \in RentalIds |->
                   IF r = "r1"
                     THEN [SeedRental("c2", "v2", 3, 4) EXCEPT
                             !.status = ACTIVE]
                     ELSE NoRental]
    /\ reservation = [q \in ResvIds |->
                        IF q = "q1"
                          THEN [SeedReservation("c2", "v2", 1, 2) EXCEPT
                                  !.status = CONFIRMED]
                          ELSE NoReservation]
    /\ vehicle = [v \in Vehicles |->
                    [status |-> IF v = "v2" THEN RENTED ELSE AVAILABLE,
                     station |-> "s1"]]
    /\ lock = [x \in Rows |-> NoProc]
    /\ proc = [p \in Procs |-> Idle]

(* a start in the past, a start that is not before the end, two one-day
   intervals and one the balance of c1 does not cover *)
CreateIntervals == {<<0, 2>>, <<2, 2>>, <<1, 2>>, <<3, 4>>, <<1, 4>>}

NextCreate ==
    \E p \in Procs :
        \/ \E u \in Clients, v \in Vehicles, pick \in Stations,
              iv \in CreateIntervals :
              create_start(p, u, v, pick, iv[1], iv[2])
        \/ create_lock_user(p)
        \/ create_lock_vehicle(p)
        \/ create_check(p)
        \/ create_save(p)

SpecCreate == InitCreate /\ [][NextCreate]_vars

(* C10: no step of a CreateRental that is not answered 201 changes a
   balance or the rentals: a rejected create, rejected before or after its
   debit, leaves both exactly as they were. *)
C10_FailedCreateChangesNothing ==
    [][\A p \in Procs :
          ( /\ proc[p].op = "create" /\ proc[p].pc # "idle"
            /\ proc'[p] # proc[p]
            /\ proc'[p].resp # "201" )
          => (balance' = balance /\ rental' = rental)]_vars

(* a create has been rejected by the serializer, after the debit, and one
   by the balance check, before it *)
C10_RejectedAfterDebit ==
    /\ \E p \in Procs :
           proc[p].op = "create" /\ proc[p].resp = "400_validation"
    /\ \E p \in Procs :
           proc[p].op = "create" /\ proc[p].resp = "400_insufficient_balance"
    /\ balance = [c \in Clients |-> IF c = "c1" THEN 2 ELSE 4]

-----------------------------------------------------------------------------
(* A client creates a rental with POST /rentals/ and, once that request is
   answered, cancels a rental with PATCH /rentals/<pk>/ {status: CANCELLED}.
   The database holds no rental before the create. *)

InitRoundTrip ==
    /\ InitRaceRest
    /\ proc = [p \in Procs |-> Idle]

NextRoundTrip ==
    \/ /\ proc["p1"].op = None
       /\ \E u \in Clients, v \in Vehicles, iv \in FutureIntervals :
             create_start("p1", u, v, "s1", iv[1], iv[2])
    \/ create_lock_user("p1")
    \/ create_lock_vehicle("p1")
    \/ create_check("p1")
    \/ create_save("p1")
    \/ /\ proc["p1"].pc = "idle" /\ proc["p1"].op = "create"
       /\ proc["p2"].op = None
       /\ \E r \in RentalIds :
             update_start("p2", proc["p1"].user, r, CANCELLED, None, None,
                          NoTime, NoTime)
    \/ update_lock_user("p2")
    \/ update_lock_rental("p2")

SpecRoundTrip == InitRoundTrip /\ [][NextRoundTrip]_vars

(* C11: once the create and the cancel that follows it are both answered,
   the rental was created (201) and cancelled (200) and the balance of the
   client is what it was before the create. *)
C11_CreateCancelRoundTrip ==
    ( /\ proc["p1"].pc = "idle" /\ proc["p1"].op = "create"
      /\ proc["p2"].pc = "idle" /\ proc["p2"].op = "update" )
    => /\ proc["p1"].resp = "201"
       /\ proc["p2"].resp = "200"
       /\ balance[proc["p1"].user] = RaceBalance[proc["p1"].user]

(* the rentals of u that are PENDING, priced for their interval, paid out
   of the balance u had, on a vehicle that is still AVAILABLE *)
CreatedRentalsOf(u) ==
    {r \in PendingRentalsOf(u) :
        /\ rental[r].total
             = total_amount(rental[r].car, rental[r].s, rental[r].e)
        /\ balance[u] = RaceBalance[u] - rental[r].total
        /\ vehicle[rental[r].car].status = AVAILABLE}

(* C13: once a valid CreateRental of a client who can pay is answered, it
   is answered 201, exactly one rental of the client is stored, PENDING,
   the balance is lower by exactly its total_amount and the vehicle is
   still AVAILABLE. *)
C13_CreateDebitsAndStores ==
    (proc["p1"].pc = "idle" /\ proc["p1"].op = "create")
    => /\ proc["p1"].resp = "201"
       /\ Cardinality(CreatedRentalsOf(proc["p1"].user)) = 1

-----------------------------------------------------------------------------
(* Every request that can touch the status of rental r1 of client c1: the
   client's cancel, the manager's update (which sets the return station),
   the manager's set-status with every status, the client's return and the
   client's delete. *)

InitStatus ==
    /\ balance = [c \in Clients |-> 2]
    /\ rental = [r \in RentalIds |->
                   IF r = "r1" THEN SeedRental("c1", "v1", 2, 4) ELSE NoRental]
    /\ reservation = [q \in ResvIds |-> NoReservation]
    /\ InitRest

NextStatus ==
    \E p \in Procs :
        \/ update_start(p, "c1", "r1", CANCELLED, None, None, NoTime, NoTime)
        \/ update_start(p, "m1", "r1", None, None, "s1", 2, 4)
        \/ update_lock_user(p)
        \/ update_lock_rental(p)
        \/ update_body(p)
        \/ update_commit(p)
        \/ \E st \in RentalStatuses : set_status_start(p, "m1", "r1", st)
        \/ set_status_lock(p)
        \/ set_status_check(p)
        \/ set_status_refund(p)
        \/ set_status_vehicle(p)
        \/ \E near \in BOOLEAN : return_start(p, "c1", "s2", near)
        \/ return_read(p)
        \/ return_save_rental(p)
        \/ return_save_vehicle(p)
        \/ destroy_start(p, "c1", "r1")
        \/ destroy_check(p)
        \/ destroy_delete(p)

SpecStatus == InitStatus /\ [][NextStatus]_vars

(* the changes of status a rental may make *)
RentalTransitions ==
    {<<PENDING, ACTIVE>>, <<PENDING, CANCELLED>>, <<ACTIVE, COMPLETED>>}

(* p answers a request to cancel a rental that is ACTIVE *)
AnswersCancelOfActive(p) ==
    /\ proc[p].pc \in {"update_body", "set_status_check"}
    /\ proc[p].st = CANCELLED
    /\ rental[proc[p].rid].status = ACTIVE
    /\ proc'[p] # proc[p]

(* C12: a rental's status changes only along PENDING->ACTIVE,
   PENDING->CANCELLED and ACTIVE->COMPLETED (so COMPLETED and CANCELLED are
   terminal), and a request to cancel an ACTIVE rental, the client's or the
   manager's, is refused and changes neither the rentals, the balances nor
   the vehicles. *)
C12_RentalStatusMachine ==
    [][ /\ \A r \in RentalIds :
             ( /\ rental[r].exists /\ rental'[r].exists
               /\ rental'[r].status # rental[r].status )
             => <<rental[r].status, rental'[r].status>> \in RentalTransitions
        /\ \A p \in Procs :
             AnswersCancelOfActive(p)
             => /\ proc'[p].resp = "400_cancel_active"
                /\ rental' = rental /\ balance' = balance
                /\ vehicle' = vehicle ]_vars

(* the client and the manager have both been refused the cancel of the
   ACTIVE rental r1 *)
C12_CancelOfActiveRefused ==
    /\ rental["r1"].exists /\ rental["r1"].status = ACTIVE
    /\ vehicle["v1"].status = RENTED
    /\ \E p \in Procs, o \in Procs :
           /\ proc[p].op = "update" /\ proc[p].resp = "400_cancel_active"
           /\ proc[o].op = "set_status" /\ proc[o].resp = "400_cancel_active"


(* C18: the manager's set-status CANCELLED succeeds only on a rental that
   is not ACTIVE (a PENDING one); the step in which it succeeds makes the
   rental CANCELLED, raises the balance of the owning client by exactly the
   rental's total_amount and sets the vehicle AVAILABLE; a refused one
   changes nothing, so no rental is refunded twice. *)
C18_ManagerCancelRefundsOnce ==
    [][\A p \in Procs :
          ( /\ proc[p].op = "set_status" /\ proc[p].st = CANCELLED
            /\ proc[p].pc # "idle" /\ proc'[p].pc = "idle" )
          => IF proc'[p].resp = "200"
               THEN /\ rental[proc[p].rid].status = PENDING
                    /\ rental'[proc[p].rid].status = CANCELLED
                    /\ balance' = [balance EXCEPT
                                     ![rental[proc[p].rid].client] =
                                         @ + rental[proc[p].rid].total]
                    /\ vehicle'[rental[proc[p].rid].car].status = AVAILABLE
               ELSE UNCHANGED <<rental, balance, vehicle>>]_vars

(* the manager has cancelled the PENDING rental r1 and c1 has its
   total_amount back *)
C18_ManagerCancelled ==
    /\ rental["r1"].exists /\ rental["r1"].status = CANCELLED
    /\ \E p \in Procs : proc[p].op = "set_status" /\ proc[p].resp = "200"
    /\ balance["c1"] = 2 + rental["r1"].total
    /\ vehicle["v1"].status = AVAILABLE

(* C34: a set-status COMPLETED on a rental without a return station is
   refused, for an ACTIVE rental as a missing return station, and changes
   nothing; the step in which a set-status COMPLETED answers 200 makes the
   rental COMPLETED and its vehicle AVAILABLE. *)
C34_CompletionNeedsReturnStation ==
    [][\A p \in Procs :
          LET pr == proc[p]
              row == rental[pr.rid]
          IN
          (pr.op = "set_status" /\ pr.st = COMPLETED /\ proc'[p] # pr)
          => /\ (pr.pc = "set_status_check" /\ row.ret = None)
                => /\ proc'[p].resp
                        = IF row.status = ACTIVE
                            THEN "400_no_return_station"
                            ELSE "400_transition"
                   /\ UNCHANGED <<rental, vehicle, balance>>
             /\ proc'[p].resp = "200"
                => /\ rental'[pr.rid].status = COMPLETED
                   /\ rental'[pr.rid].ret # None
                   /\ vehicle'[rental'[pr.rid].car].status = AVAILABLE
      ]_vars

(* the manager completed r1 after giving it the return station s1, and a
   set-status was refused for the missing return station; v1 is AVAILABLE *)
C34_CompletedByManager ==
    /\ rental["r1"].status = COMPLETED /\ rental["r1"].ret = "s1"
    /\ vehicle["v1"].status = AVAILABLE
    /\ \E p \in Procs, o \in Procs :
           /\ proc[p].op = "set_status" /\ proc[p].resp = "200"
           /\ proc[o].op = "set_status"
           /\ proc[o].resp = "400_no_return_station"

(* the row whose lock the next step of p's request waits for *)
WaitsFor(p) ==
    LET pr == proc[p] IN
    CASE pr.pc \in {"create_lock_user", "update_lock_user",
                    "payment_save"} -> pr.user
      [] pr.pc \in {"create_lock_vehicle", "reservation_create_lock",
                    "vehicle_set_status_save"} -> pr.car
      [] pr.pc = "top_up_save" -> pr.target
      [] pr.pc \in {"update_lock_rental", "return_save_rental",
                    "destroy_delete"} -> pr.rid
      [] pr.pc = "set_status_lock" /\ role(pr.user) = MANAGER -> pr.rid
      [] pr.pc = "set_status_refund" -> pr.rsnap.client
      [] pr.pc \in {"set_status_vehicle", "return_save_vehicle"}
           -> pr.rsnap.car
      [] pr.pc = "reservation_set_status_lock" /\ role(pr.user) = MANAGER
           -> pr.qid
      [] pr.pc = "reservation_cancel_lock" -> pr.qid
      [] OTHER -> None

(* C35: no two requests ever wait for each other: there is no state in
   which one request waits for a row locked by a second request while the
   second waits for a row locked by the first, so both always finish. *)
C35_NoDeadlock ==
    \A p \in Procs : \A o \in Procs \ {p} :
        ~( /\ WaitsFor(p) # None /\ lock[WaitsFor(p)] = o
           /\ WaitsFor(o) # None /\ lock[WaitsFor(o)] = p )

-----------------------------------------------------------------------------
(* The requests that change the dates of rental r1: the client's date
   update and the manager's PATCH with both dates *)

PricingIntervals == {<<1, 4>>, <<2, 3>>, <<2, 4>>}

NextPricing ==
    \E p \in Procs :
        \/ \E u \in {"c1", "m1"}, iv \in PricingIntervals :
              update_start(p, u, "r1", None, None, None, iv[1], iv[2])
        \/ update_lock_user(p)
        \/ update_lock_rental(p)
        \/ update_body(p)
        \/ update_commit(p)

SpecPricing == InitStatus /\ [][NextPricing]_vars

(* C14: in every reachable state the total_amount of every rental is the
   daily price of its vehicle times max(1, day count) of its current start
   and end. *)
C14_TotalMatchesDates ==
    \A r \in RentalIds :
        rental[r].exists
        => rental[r].total
             = total_amount(rental[r].car, rental[r].s, rental[r].e)

-----------------------------------------------------------------------------
(* DELETE /rentals/r1/ by the owner c1, by another client and by the
   manager, next to the manager's activation of r1 *)

NextDestroy ==
    \E p \in Procs :
        \/ \E u \in Users : destroy_start(p, u, "r1")
        \/ destroy_check(p)
        \/ destroy_delete(p)
        \/ set_status_start(p, "m1", "r1", ACTIVE)
        \/ set_status_lock(p)
        \/ set_status_check(p)
        \/ set_status_vehicle(p)

SpecDestroy == InitStatus /\ [][NextDestroy]_vars

(* the step in which p answers its DELETE of a rental that exists *)
AnswersDestroy(p) ==
    /\ proc[p].op = "destroy" /\ proc[p].pc # "idle"
    /\ proc'[p].pc = "idle"
    /\ rental[proc[p].rid].exists

(* the rental is removed, its total_amount is credited to its client and
   its vehicle is AVAILABLE *)
DeletedWithRefund(r) ==
    /\ ~rental'[r].exists
    /\ balance' = [balance EXCEPT ![rental[r].client] = @ + rental[r].total]
    /\ vehicle'[rental[r].car].status = AVAILABLE

(* C15: the manager's delete of a PENDING rental is answered 204, removes
   the rental, credits its total_amount to the owning client and leaves the
   vehicle AVAILABLE; the manager's delete of any other rental is refused
   and changes nothing. *)
C15_ManagerDeleteRefunds ==
    [][\A p \in Procs :
          (AnswersDestroy(p) /\ role(proc[p].user) = MANAGER)
          => IF rental[proc[p].rid].status = PENDING
               THEN proc'[p].resp = "204" /\ DeletedWithRefund(proc[p].rid)
               ELSE /\ proc'[p].resp # "204"
                    /\ UNCHANGED <<rental, balance, vehicle>>]_vars

(* C16: the owner's delete of a PENDING rental is answered 204, removes the
   rental and credits its total_amount to the client; the owner's delete of
   a rental in any other status is refused and changes nothing. *)
C16_ClientDeleteRefunds ==
    [][\A p \in Procs :
          (AnswersDestroy(p) /\ proc[p].user = rental[proc[p].rid].client)
          => IF rental[proc[p].rid].status = PENDING
               THEN proc'[p].resp = "204" /\ DeletedWithRefund(proc[p].rid)
               ELSE /\ proc'[p].resp # "204"
                    /\ UNCHANGED <<rental, balance, vehicle>>]_vars



(* C37: in every reachable state each client's balance plus the
   total_amount of that client's rentals that exist as PENDING, ACTIVE or
   COMPLETED is what it was at the start (no top-up is made here): every
   charge is held by a live rental and every cancellation or deletion has
   been refunded. *)
C37_FundsConserved ==
    LET held(c, r) ==
            IF /\ rental[r].exists /\ rental[r].client = c
               /\ rental[r].status \in {PENDING, ACTIVE, COMPLETED}
              THEN rental[r].total ELSE 0
    IN \A c \in Clients :
           balance[c] + held(c, "r1") + held(c, "r2")
             = IF c = "c1" THEN 2 + total_amount("v1", 2, 4) ELSE 2

-----------------------------------------------------------------------------
(* POST /rentals/return-car-to-station/ by every user, for either station
   or one that does not exist, near it or not.  Client c1 has the ACTIVE
   rental r1 of vehicle v1, picked up at s1; c2 has no rental. *)

InitReturn ==
    /\ balance = [c \in Clients |-> 2]
    /\ rental = [r \in RentalIds |->
                   IF r = "r1"
                     THEN [SeedRental("c1", "v1", 2, 4) EXCEPT
                             !.status = ACTIVE]
                     ELSE NoRental]
    /\ reservation = [q \in ResvIds |-> NoReservation]
    /\ vehicle = [v \in Vehicles |->
                    [status |-> IF v = "v1" THEN RENTED ELSE AVAILABLE,
                     station |-> "s1"]]
    /\ lock = [x \in Rows |-> NoProc]
    /\ proc = [p \in Procs |-> Idle]

NextReturn ==
    \E p \in Procs :
        \/ \E u \in Users, st \in Stations \cup {None}, near \in BOOLEAN :
              return_start(p, u, st, near)
        \/ return_read(p)
        \/ return_save_rental(p)
        \/ return_save_vehicle(p)

SpecReturn == InitReturn /\ [][NextReturn]_vars

(* p takes a step of a return request *)
ReturnStep(p) ==
    proc[p].op = "return" /\ proc[p].pc # "idle" /\ proc'[p] # proc[p]

(* C19: the step in which a return succeeds makes the client's rental
   COMPLETED with return_station the given station and its vehicle
   AVAILABLE at that station, both at once; no other step of a return
   writes the rental or the vehicle. *)
C19_ReturnIsOneStep ==
    [][\A p \in Procs :
          ReturnStep(p)
          => IF proc'[p].resp = "200"
               THEN /\ rental'[proc[p].rid].client = proc[p].user
                    /\ rental'[proc[p].rid].status = COMPLETED
                    /\ rental'[proc[p].rid].ret = proc[p].station
                    /\ vehicle'[rental'[proc[p].rid].car]
                         = [status |-> AVAILABLE, station |-> proc[p].station]
               ELSE UNCHANGED <<rental, vehicle>>]_vars

(* c1 has returned v1 to station s2 *)
C19_Returned ==
    /\ \E p \in Procs :
           proc[p].op = "return" /\ proc[p].user = "c1"
           /\ proc[p].resp = "200"
    /\ rental["r1"].status = COMPLETED /\ rental["r1"].ret = "s2"
    /\ vehicle["v1"] = [status |-> AVAILABLE, station |-> "s2"]

(* C20: a return by a caller who is not near the station, for a station
   that does not exist, or by a client without an ACTIVE rental is refused
   by the step that checks it, and a refused return changes neither the
   rentals, the vehicles nor the balances. *)
C20_RefusedReturnChangesNothing ==
    [][\A p \in Procs :
          ReturnStep(p)
          => /\ ( /\ proc[p].pc = "return_read"
                  /\ \/ ~proc[p].near
                     \/ proc[p].station = None
                     \/ ActiveRentalsOf(proc[p].user) = {} )
                => /\ proc'[p].pc = "idle"
                   /\ proc'[p].resp \in {"403", "400_no_active_rental",
                                         "400_no_station", "400_not_near"}
             /\ proc'[p].resp \notin {None, "200"}
                => UNCHANGED <<rental, vehicle, balance>>]_vars

(* one return has been refused for the distance and one for the station,
   and r1 is still ACTIVE with v1 RENTED at s1 *)
C20_Refused ==
    /\ \E p \in Procs, o \in Procs :
           /\ proc[p].op = "return" /\ proc[p].resp = "400_not_near"
           /\ proc[o].op = "return" /\ proc[o].resp = "400_no_station"
    /\ rental["r1"].status = ACTIVE
    /\ vehicle["v1"] = [status |-> RENTED, station |-> "s1"]

(* C39: of two return-car-to-station requests of the same client for the
   same ACTIVE rental at most one succeeds: the rental is completed at
   most once. *)
C39_AtMostOneReturnSucceeds ==
    \A p \in Procs : \A o \in Procs \ {p} :
        ~ ( /\ proc[p].op = "return" /\ proc[p].resp = "200"
            /\ proc[o].op = "return" /\ proc[o].resp = "200"
            /\ proc[p].user = proc[o].user )

-----------------------------------------------------------------------------
(* Each client has an ACTIVE rental and posts return-car-to-station again
   and again, to any station, near it or not, each call after the answer
   to their previous one; the two clients' calls run side by side. *)

InitReturnTwice ==
    /\ balance = [c \in Clients |-> 2]
    /\ rental = [r \in RentalIds |->
                   IF r = "r1"
                     THEN [SeedRental("c1", "v1", 2, 4) EXCEPT
                             !.status = ACTIVE]
                     ELSE [SeedRental("c2", "v2", 2, 4) EXCEPT
                             !.status = ACTIVE]]
    /\ reservation = [q \in ResvIds |-> NoReservation]
    /\ vehicle = [v \in Vehicles |-> [status |-> RENTED, station |-> "s1"]]
    /\ lock = [x \in Rows |-> NoProc]
    /\ proc = [p \in Procs |-> Idle]

NextReturnTwice ==
    \E p \in Procs :
        \/ \E u \in Clients, st \in Stations \cup {None}, near \in BOOLEAN :
              /\ \A o \in Procs \ {p} :
                    proc[o].pc = "idle" \/ proc[o].user # u
              /\ return_start(p, u, st, near)
        \/ return_read(p)
        \/ return_save_rental(p)
        \/ return_save_vehicle(p)

SpecReturnTwice == InitReturnTwice /\ [][NextReturnTwice]_vars

(* the client's rental has been completed by an earlier return *)
HasReturned(u) ==
    \E r \in RentalIds :
        /\ rental[r].exists /\ rental[r].client = u
        /\ rental[r].status = COMPLETED

(* C21: a return succeeds only on a rental that is ACTIVE; a return the
   same client posts after their return has completed the rental is
   refused, and no step of it changes a rental, a vehicle or a balance,
   so the vehicle stays where the first call put it. *)
C21_SecondReturnRefused ==
    [][\A p \in Procs :
          ReturnStep(p)
          => /\ proc'[p].resp = "200"
                => /\ rental[proc[p].rid].status = ACTIVE
                   /\ vehicle[rental[proc[p].rid].car].status = RENTED
             /\ HasReturned(proc[p].user)
                => /\ proc'[p].pc = "idle"
                   /\ proc'[p].resp = "400_no_active_rental"
                   /\ UNCHANGED <<rental, vehicle, balance>>]_vars

(* c1 returned v1 to s2, posted a second return and was refused; v1 is
   still AVAILABLE at s2 *)
C21_ReturnedOnce ==
    /\ \E p \in Procs :
           /\ proc[p].op = "return" /\ proc[p].user = "c1"
           /\ proc[p].resp = "400_no_active_rental"
    /\ rental["r1"].status = COMPLETED /\ rental["r1"].ret = "s2"
    /\ vehicle["v1"] = [status |-> AVAILABLE, station |-> "s2"]

-----------------------------------------------------------------------------
(* The manager's desk: two PENDING reservations of different clients for
   the same interval of v1, a PENDING rental of v1 that overlaps them and
   one of v2.  One request at a time: the manager sets the status of a
   reservation or activates a rental, a client cancels a reservation. *)

InitConfirm ==
    /\ balance = [c \in Clients |-> 2]
    /\ rental = [r \in RentalIds |->
                   IF r = "r1" THEN SeedRental("c1", "v1", 3, 4)
                               ELSE SeedRental("c2", "v2", 2, 3)]
    /\ reservation = [q \in ResvIds |->
                   IF q = "q1" THEN SeedReservation("c1", "v1", 2, 3)
                               ELSE SeedReservation("c2", "v1", 2, 3)]
    /\ InitRest

NextConfirm ==
    \E p \in Procs :
        \/ /\ \A o \in Procs : proc[o].pc = "idle"
           /\ \/ \E q \in ResvIds, st \in ReservationStatuses :
                    reservation_set_status_start(p, "m1", q, st)
              \/ \E u \in Clients, q \in ResvIds :
                    reservation_cancel_start(p, u, q)
              \/ \E r \in RentalIds : set_status_start(p, "m1", r, ACTIVE)
        \/ reservation_set_status_lock(p)
        \/ reservation_set_status_body(p)
        \/ reservation_set_status_commit(p)
        \/ reservation_cancel_lock(p)
        \/ reservation_cancel_body(p)
        \/ set_status_lock(p)
        \/ set_status_check(p)
        \/ set_status_vehicle(p)

SpecConfirm == InitConfirm /\ [][NextConfirm]_vars

(* p answers a request to confirm a PENDING reservation *)
AnswersConfirm(p) ==
    /\ proc[p].op = "reservation_set_status" /\ proc[p].st = CONFIRMED
    /\ proc[p].pc \in {"reservation_set_status_body",
                       "reservation_set_status_commit"}
    /\ proc'[p].pc = "idle"
    /\ reservation[proc[p].qid].status = PENDING

(* C23: a request to confirm a PENDING reservation is refused, leaving it
   PENDING, when an ACTIVE rental or another CONFIRMED reservation of the
   same vehicle overlaps its interval, and otherwise answers 200 and makes
   it CONFIRMED; PENDING reservations of other clients do not count, so
   of two PENDING reservations for the same interval the one confirmed
   first becomes CONFIRMED and the other is then refused. *)
C23_ConfirmRefusedOnConflict ==
    [][\A p \in Procs :
          AnswersConfirm(p)
          => LET q == proc[p].qid
                 row == reservation[q]
             IN IF \/ ActiveRentalOverlap(row.car, row.s, row.e)
                   \/ ConfirmedReservationOverlap(row.car, row.s, row.e, q)
                  THEN /\ proc'[p].resp \in {"400_rented", "400_reserved"}
                       /\ UNCHANGED reservation
                  ELSE /\ proc'[p].resp = "200"
                       /\ reservation' =
                            [reservation EXCEPT ![q].status = CONFIRMED]]_vars

(* of the two reservations for the same interval one was confirmed and the
   confirmation of the other was refused *)
C23_SecondConfirmRefused ==
    /\ \E q \in ResvIds, x \in ResvIds :
           /\ reservation[q].status = CONFIRMED
           /\ reservation[x].status = PENDING
    /\ \E p \in Procs, o \in Procs :
           /\ proc[p].op = "reservation_set_status" /\ proc[p].resp = "200"
           /\ proc[o].op = "reservation_set_status"
           /\ proc[o].resp = "400_reserved"

-----------------------------------------------------------------------------
(* Reservation requests for every vehicle and every pair of dates, past
   and empty intervals included, while the manager changes the vehicles'
   statuses.  v1 is RENTED under c2's ACTIVE rental r1 for [3,4]; c1 holds
   a PENDING reservation of v2. *)

InitReserve ==
    /\ balance = [c \in Clients |-> 2]
    /\ rental = [r \in RentalIds |->
                   IF r = "r1"
                     THEN [SeedRental("c2", "v1", 3, 4) EXCEPT
                             !.status = ACTIVE]
                     ELSE NoRental]
    /\ reservation = [q \in ResvIds |->
                   IF q = "q1" THEN SeedReservation("c1", "v2", 1, 2)
                               ELSE NoReservation]
    /\ vehicle = [v \in Vehicles |->
                    [status |-> IF v = "v1" THEN RENTED ELSE AVAILABLE,
                     station |-> "s1"]]
    /\ lock = [x \in Rows |-> NoProc]
    /\ proc = [p \in Procs |-> Idle]

NextReserve ==
    \/ \E u \in Clients, v \in Vehicles, s \in Times, e \in Times :
          reservation_create_start("p1", u, v, s, e)
    \/ reservation_create_lock("p1")
    \/ reservation_create_body("p1")
    \/ \E v \in Vehicles, st \in VehicleStatuses :
          vehicle_set_status_start("p2", "m1", v, st)
    \/ vehicle_set_status_read("p2")
    \/ vehicle_set_status_save("p2")

SpecReserve == InitReserve /\ [][NextReserve]_vars

(* the request p is about to answer has stored a PENDING reservation *)
StoresReservation(p) ==
    \E q \in ResvIds :
        /\ ~reservation[q].exists
        /\ reservation' =
             [reservation EXCEPT ![q] =
                SeedReservation(proc[p].user, proc[p].car,
                                proc[p].s, proc[p].e)]

(* C25: a reservation request for a vehicle that is RENTED or in
   MAINTENANCE, for a future interval that overlaps neither a reservation
   of the same client nor an ACTIVE rental, is answered 201 and stores a
   PENDING reservation. *)
C25_ReservesUnavailableVehicle ==
    [][\A p \in Procs :
          ( /\ AnswersReservationCreate(p)
            /\ vehicle[proc[p].car].status \in {RENTED, MAINTENANCE}
            /\ proc[p].s >= Now /\ proc[p].s < proc[p].e
            /\ ~OwnOpenReservationOverlap(proc[p].user, proc[p].car,
                                          proc[p].s, proc[p].e)
            /\ ~ActiveRentalOverlap(proc[p].car, proc[p].s, proc[p].e) )
          => proc'[p].resp = "201" /\ StoresReservation(p)]_vars

(* C26: a reservation request whose start is not before its end (start =
   end included) or whose start is in the past is refused by the
   validation of the interval and stores nothing. *)
C26_InvalidIntervalRefused ==
    [][\A p \in Procs :
          ( /\ AnswersReservationCreate(p)
            /\ proc[p].s >= proc[p].e \/ proc[p].s < Now
            /\ vehicle[proc[p].car].status = AVAILABLE
            /\ ~OwnOpenReservation(proc[p].user, proc[p].car)
            /\ ~ActiveRentalOverlap(proc[p].car, proc[p].s, proc[p].e) )
          => proc'[p].resp = "400_validation" /\ UNCHANGED reservation]_vars



-----------------------------------------------------------------------------
(* Pricing: rentals of up to two and a half days.  Client c1 has the
   PENDING rental r1 of v1 for [2,4]; p1 carries the creates of every
   client, p2 c1's changes of r1's dates. *)

BillingTimes == 0 .. (2 * TicksPerDay + 1)

BillingIntervals ==
    {iv \in BillingTimes \X BillingTimes : iv[1] >= Now /\ iv[1] < iv[2]}

InitBilling ==
    /\ balance = RaceBalance
    /\ rental = [r \in RentalIds |->
                   IF r = "r1" THEN SeedRental("c1", "v1", 2, 4)
                               ELSE NoRental]
    /\ reservation = [q \in ResvIds |-> NoReservation]
    /\ InitRest

NextBilling ==
    \/ \E u \in Clients, v \in Vehicles, iv \in BillingIntervals :
          create_start("p1", u, v, "s1", iv[1], iv[2])
    \/ create_lock_user("p1")
    \/ create_lock_vehicle("p1")
    \/ create_check("p1")
    \/ create_save("p1")
    \/ \E iv \in BillingIntervals :
          update_start("p2", "c1", "r1", None, None, None, iv[1], iv[2])
    \/ update_lock_user("p2")
    \/ update_lock_rental("p2")
    \/ update_body("p2")
    \/ update_commit("p2")

SpecBilling == InitBilling /\ [][NextBilling]_vars

(* C29: the amount a create debits, and the total_amount a client's change
   of dates stores, is the daily price times the duration rounded up to
   whole days, at least one day. *)
C29_PricedByCeilOfDuration ==
    [][\A p \in Procs :
          LET pr == proc[p]
              days(s, e) ==
                  LET d == (e - s + TicksPerDay - 1) \div TicksPerDay
                  IN IF d < 1 THEN 1 ELSE d
          IN
          /\ (pr.pc = "create_check" /\ proc'[p].pc = "create_save")
             => proc'[p].debited = daily_price(pr.car) * days(pr.s, pr.e)
          /\ (pr.pc = "update_commit" /\ proc'[p].resp = "200")
             => rental'[pr.rid].total
                  = daily_price(rental'[pr.rid].car)
                      * days(rental'[pr.rid].s, rental'[pr.rid].e)]_vars

-----------------------------------------------------------------------------
(* Rentals against reservations: vehicle v1 has the reservation q1 for
   [1,2], PENDING until the manager confirms or cancels it, and the
   CANCELLED reservation q2 for [3,4]; c1 has the PENDING rental r1 of v1
   for [3,4].  Clients create rentals and c1 changes r1's dates, for an
   interval that touches q1's at tick 2 and one that is clear of it. *)

ConflictIntervals == {<<2, 4>>, <<3, 4>>}

InitConflict ==
    /\ balance = RaceBalance
    /\ rental = [r \in RentalIds |->
                   IF r = "r1" THEN SeedRental("c1", "v1", 3, 4)
                               ELSE NoRental]
    /\ reservation = [q \in ResvIds |->
                   IF q = "q1"
                     THEN SeedReservation("c2", "v1", 1, 2)
                     ELSE [SeedReservation("c2", "v1", 3, 4) EXCEPT
                             !.status = CANCELLED]]
    /\ InitRest

NextConflict ==
    \E p \in Procs :
        \/ \E u \in Clients, v \in Vehicles, iv \in ConflictIntervals :
              create_start(p, u, v, "s1", iv[1], iv[2])
        \/ create_lock_user(p)
        \/ create_lock_vehicle(p)
        \/ create_check(p)
        \/ create_save(p)
        \/ \E iv \in ConflictIntervals :
              update_start(p, "c1", "r1", None, None, None, iv[1], iv[2])
        \/ update_lock_user(p)
        \/ update_lock_rental(p)
        \/ update_body(p)
        \/ update_commit(p)
        \/ \E q \in ResvIds, st \in {CONFIRMED, CANCELLED} :
              reservation_set_status_start(p, "m1", q, st)
        \/ reservation_set_status_lock(p)
        \/ reservation_set_status_body(p)
        \/ reservation_set_status_commit(p)

SpecConflict == InitConflict /\ [][NextConflict]_vars

(* C30: a create by a client without an ACTIVE rental, and a client's
   change of dates to a non-empty interval, is refused as reserved exactly
   when a CONFIRMED reservation [rs, re] of the vehicle has rs <= e and
   s <= re for the requested [s, e], touching endpoints included; PENDING
   and CANCELLED reservations never cause that refusal. *)
C30_RefusedIffConfirmedOverlap ==
    [][\A p \in Procs :
          LET pr == proc[p]
              car == IF pr.op = "create" THEN pr.car
                     ELSE rental[pr.rid].car
              reserved ==
                  \E q \in ResvIds :
                      /\ reservation[q].exists
                      /\ reservation[q].car = car
                      /\ reservation[q].status = CONFIRMED
                      /\ reservation[q].s <= pr.e /\ pr.s <= reservation[q].e
          IN
          ( \/ pr.pc = "create_check" /\ ActiveRentalsOf(pr.user) = {}
            \/ pr.pc = "update_body" /\ pr.s < pr.e )
          /\ proc'[p] # pr
          => (proc'[p].resp = "400_reserved" <=> reserved)]_vars

(* q1, which meets the requested interval only at tick 2, is CONFIRMED and
   q2 is CANCELLED; a create and a change of dates have been refused as
   reserved *)
C30_TouchingRefused ==
    /\ reservation["q1"].status = CONFIRMED
    /\ reservation["q2"].status = CANCELLED
    /\ \E p \in Procs, o \in Procs :
           /\ proc[p].op = "create" /\ proc[p].resp = "400_reserved"
           /\ proc[o].op = "update" /\ proc[o].resp = "400_reserved"

-----------------------------------------------------------------------------
(* Two clients' PENDING rentals of the same vehicle, for overlapping
   intervals, and the manager's set-status requests on them. *)

InitSameVehicle ==
    /\ balance = [c \in Clients |-> 2]
    /\ rental = [r \in RentalIds |->
                   IF r = "r1" THEN SeedRental("c1", "v1", 2, 4)
                               ELSE SeedRental("c2", "v1", 2, 3)]
    /\ reservation = [q \in ResvIds |-> NoReservation]
    /\ InitRest

NextSameVehicle ==
    \E p \in Procs :
        \/ \E r \in RentalIds, st \in {ACTIVE, CANCELLED} :
              set_status_start(p, "m1", r, st)
        \/ set_status_lock(p)
        \/ set_status_check(p)
        \/ set_status_refund(p)
        \/ set_status_vehicle(p)

SpecSameVehicle == InitSameVehicle /\ [][NextSameVehicle]_vars

(* C36: in every reachable state each vehicle has at most one rental
   with status ACTIVE. *)
C36_AtMostOneActivePerVehicle ==
    \A v \in Vehicles :
        Cardinality({r \in RentalIds : /\ rental[r].exists
                                       /\ rental[r].car = v
                                       /\ rental[r].status = ACTIVE}) <= 1

=============================================================================
